---- MODULE Spec2Model ----
(***************************************************************************)
(* Array shapes for the Zend engine: the compiler from a type-expression   *)
(* tree to a zend_type, the runtime validator of array<T> and array{...},  *)
(* the stringifier, the equivalence check and the argument/return          *)
(* verification that turns a validation failure into a diagnostic.         *)
(*                                                                         *)
(* Host definitions (zend_types.h, zend_hash.h) are not part of the        *)
(* repository.  The model takes them as the host defines them: a mask is   *)
(* the set of its bits, MAY_BE_BOOL is the two bits MAY_BE_FALSE and       *)
(* MAY_BE_TRUE together, a zval is a kind with a payload, a HashTable is   *)
(* an ordered list of buckets.                                             *)
(***************************************************************************)
EXTENDS Integers, Sequences, FiniteSets, TLC

VARIABLES ast, type, other, value, pc, result, diag, owners, freed, ctx, heap, levels,
          stack, wrapper

vars ==
    <<ast, type, other, value, pc, result, diag, owners, freed, ctx, heap, levels, stack, wrapper>>

\* owners: how many zend_type copies of the compiled declaration were made
\* and how many are still live; freed: the descriptors freed, in order; ctx:
\* what the execution contexts working on the declaration are doing; heap:
\* the memory of the declaration's descriptors while the contexts run; levels:
\* how many enclosing array<...> nodes the compiler has returned to; stack:
\* the calls of the validator in progress, innermost last; wrapper: the
\* introspection object created for the declaration, if any.

(***************************************************************************)
(* Bounds of the explored inputs.                                          *)
(***************************************************************************)
MaxLen == 3
MaxElems == 2
\* The largest number of zend_type copies made of a declaration.
MaxOwners == 3
\* The largest number of array<...> levels put around a declaration.
MaxNesting == 256
\* The largest number of bits in the mask of a built-in type.
MaxBits == 3

(***************************************************************************)
(* zvals.  A pointer to a zval is a sequence of length 0 (NULL) or 1.      *)
(***************************************************************************)
ZNull == [k |-> "null"]
ZFalse == [k |-> "false"]
ZTrue == [k |-> "true"]
ZResource == [k |-> "resource"]
ZLong(n) == [k |-> "long", lval |-> n]
ZDouble(d) == [k |-> "double", dval |-> d]
ZString(s) == [k |-> "string", str |-> s]
ZArray(ht) == [k |-> "array", arr |-> ht]
ZObject(c) == [k |-> "object", ce |-> c]
ZRef(v) == [k |-> "reference", ref |-> v]

Z_TYPE_P(val) == val.k
Z_ISREF_P(val) == val.k = "reference"
Z_REFVAL_P(val) == val.ref
Z_ARRVAL_P(val) == val.arr
Z_OBJCE_P(val) == val.ce
ZVAL_DEREF(val) == IF Z_ISREF_P(val) THEN Z_REFVAL_P(val) ELSE val

NULL == <<>>
Ptr(x) == <<x>>
\* The characters of the string a zend_string pointer points to.
ZSTR_VAL(p) == p[1]

(***************************************************************************)
(* Keys: a string key or an integer key, never both, as in                 *)
(* zend_shape_element {key, key_num, is_string_key}.  In a shape element   *)
(* key is a pointer, NULL for an integer key; the key of a bucket and of a *)
(* diagnostic is held by its characters.                                   *)
(***************************************************************************)
StrKey(s) == [is_string_key |-> TRUE, key |-> s, key_num |-> 0]
NumKey(n) == [is_string_key |-> FALSE, key |-> "", key_num |-> n]
Bucket(kr, v) == [bkey |-> kr, val |-> v]

zend_hash_num_elements(ht) == Len(ht)

\* Index of the bucket holding the key, 0 when the key is absent.
HashIndex(ht, kr) ==
    LET hits == {i \in 1..Len(ht) : ht[i].bkey = kr}
    IN IF hits = {} THEN 0 ELSE CHOOSE i \in hits : TRUE

zend_hash_find(ht, key) ==
    LET i == HashIndex(ht, StrKey(key)) IN IF i = 0 THEN NULL ELSE Ptr(ht[i].val)

zend_hash_index_find(ht, h) ==
    LET i == HashIndex(ht, NumKey(h)) IN IF i = 0 THEN NULL ELSE Ptr(ht[i].val)

(***************************************************************************)
(* Classes known at check time.  instanceof_function is reflexive and      *)
(* follows the implemented interfaces; zend_lookup_class fails for a name  *)
(* that is not declared.                                                   *)
(***************************************************************************)
ClassTable ==
    [A |-> {"A"}, B |-> {"B"}, AB |-> {"AB", "A", "B"},
     It |-> {"It", "Traversable"}, Traversable |-> {"Traversable"}]

\* Class names are looked up and compared through their lower-cased form.
LowerCase ==
    [A |-> "a", a |-> "a", B |-> "b", AB |-> "ab", It |-> "it",
     Traversable |-> "traversable", Missing |-> "missing"]

zend_ce_traversable == "Traversable"
zend_lookup_class(name) ==
    IF \E c \in DOMAIN ClassTable : LowerCase[c] = LowerCase[name]
    THEN Ptr(CHOOSE c \in DOMAIN ClassTable : LowerCase[c] = LowerCase[name])
    ELSE NULL
instanceof_function(ce, expected) == expected \in ClassTable[ce]

(***************************************************************************)
(* zend_type: a mask of bits and one pointer.                              *)
(***************************************************************************)
ZEND_TYPE_ARRAY_OF_BIT == "ZEND_TYPE_ARRAY_OF_BIT"
ZEND_TYPE_ARRAY_SHAPE_BIT == "ZEND_TYPE_ARRAY_SHAPE_BIT"
ZEND_TYPE_EXTENDED_ARRAY_MASK == {ZEND_TYPE_ARRAY_OF_BIT, ZEND_TYPE_ARRAY_SHAPE_BIT}

MayBeBits ==
    {"MAY_BE_NULL", "MAY_BE_FALSE", "MAY_BE_TRUE", "MAY_BE_LONG",
     "MAY_BE_DOUBLE", "MAY_BE_STRING", "MAY_BE_ARRAY", "MAY_BE_OBJECT",
     "MAY_BE_RESOURCE", "MAY_BE_CALLABLE", "MAY_BE_ITERABLE", "MAY_BE_VOID",
     "MAY_BE_NEVER", "MAY_BE_MIXED"}

\* MAY_BE_BOOL is (MAY_BE_FALSE|MAY_BE_TRUE): a mask of two bits, so that
\* (mask & MAY_BE_BOOL) is non-zero as soon as one of the two is set.
MAY_BE_BOOL == {"MAY_BE_FALSE", "MAY_BE_TRUE"}

\* Numeric value of each bit, needed where the mask is used as a number
\* (the shape hash).  Bits 24 and 25 are the repository's; the others are
\* the host's.
BitValue ==
    [MAY_BE_NULL |-> 2, MAY_BE_FALSE |-> 4, MAY_BE_TRUE |-> 8, MAY_BE_LONG |-> 16,
     MAY_BE_DOUBLE |-> 32, MAY_BE_STRING |-> 64, MAY_BE_ARRAY |-> 128,
     MAY_BE_OBJECT |-> 256, MAY_BE_RESOURCE |-> 512,
     MAY_BE_CALLABLE |-> 4096, MAY_BE_ITERABLE |-> 8192, MAY_BE_VOID |-> 16384,
     MAY_BE_MIXED |-> 65536, MAY_BE_NEVER |-> 131072,
     _ZEND_TYPE_UNION_BIT |-> 262144, _ZEND_TYPE_INTERSECTION_BIT |-> 524288,
     _ZEND_TYPE_LIST_BIT |-> 4194304, _ZEND_TYPE_NAME_BIT |-> 8388608,
     ZEND_TYPE_ARRAY_OF_BIT |-> 16777216, ZEND_TYPE_ARRAY_SHAPE_BIT |-> 33554432]

RECURSIVE MaskSum(_)
MaskSum(bits) ==
    IF bits = {} THEN 0
    ELSE LET b == CHOOSE x \in bits : TRUE IN BitValue[b] + MaskSum(bits \ {b})

NullPtr == [p |-> "NULL"]
NamePtr(s) == [name |-> s]

ZEND_TYPE_INIT_NONE == [type_mask |-> {}, ptr |-> NullPtr]
\* ZEND_TYPE_INIT_CODE: the mask of the built-in type code, one bit for
\* every code but _IS_BOOL.
CodeBit ==
    [IS_NULL |-> {"MAY_BE_NULL"}, IS_FALSE |-> {"MAY_BE_FALSE"}, IS_TRUE |-> {"MAY_BE_TRUE"},
     _IS_BOOL |-> MAY_BE_BOOL, IS_LONG |-> {"MAY_BE_LONG"}, IS_DOUBLE |-> {"MAY_BE_DOUBLE"},
     IS_STRING |-> {"MAY_BE_STRING"}, IS_ARRAY |-> {"MAY_BE_ARRAY"},
     IS_OBJECT |-> {"MAY_BE_OBJECT"}, IS_CALLABLE |-> {"MAY_BE_CALLABLE"},
     IS_ITERABLE |-> {"MAY_BE_ITERABLE"}, IS_VOID |-> {"MAY_BE_VOID"},
     IS_NEVER |-> {"MAY_BE_NEVER"}, IS_MIXED |-> {"MAY_BE_MIXED"}]
ZEND_TYPE_INIT_CODE(code) == [type_mask |-> CodeBit[code], ptr |-> NullPtr]
ZEND_TYPE_CONTAINS_CODE(t, code) == CodeBit[code] \cap t.type_mask # {}
ZEND_TYPE_INIT_CLASS(name) == [type_mask |-> {"_ZEND_TYPE_NAME_BIT"}, ptr |-> NamePtr(name)]
ZEND_TYPE_SET_LIST(t, list) ==
    [type_mask |-> t.type_mask \cup {"_ZEND_TYPE_LIST_BIT"}, ptr |-> list]
\* Storing the descriptor and its tag bit, without the general array bit.
SetArrayOfPtrTagOnly(t, p) ==
    [type_mask |-> t.type_mask \cup {ZEND_TYPE_ARRAY_OF_BIT}, ptr |-> p]
ZEND_TYPE_SET_ARRAY_OF_PTR(t, p) ==
    [type_mask |-> t.type_mask \cup {ZEND_TYPE_ARRAY_OF_BIT, "MAY_BE_ARRAY"}, ptr |-> p]
ZEND_TYPE_SET_ARRAY_SHAPE_PTR(t, p) ==
    [type_mask |-> t.type_mask \cup {ZEND_TYPE_ARRAY_SHAPE_BIT, "MAY_BE_ARRAY"}, ptr |-> p]

ZEND_TYPE_IS_ARRAY_OF(t) == ZEND_TYPE_ARRAY_OF_BIT \in t.type_mask
ZEND_TYPE_IS_ARRAY_SHAPE(t) == ZEND_TYPE_ARRAY_SHAPE_BIT \in t.type_mask
ZEND_TYPE_HAS_EXTENDED_ARRAY(t) == t.type_mask \cap ZEND_TYPE_EXTENDED_ARRAY_MASK # {}
ZEND_TYPE_HAS_LIST(t) == "_ZEND_TYPE_LIST_BIT" \in t.type_mask
ZEND_TYPE_HAS_NAME(t) == "_ZEND_TYPE_NAME_BIT" \in t.type_mask
ZEND_TYPE_IS_SET(t) == t.type_mask # {}
ZEND_TYPE_PURE_MASK(t) == t.type_mask \cap MayBeBits
ZEND_TYPE_ARRAY_OF_PTR(t) == t.ptr
ZEND_TYPE_ARRAY_SHAPE_PTR(t) == t.ptr
ZEND_TYPE_LIST(t) == t.ptr
ZEND_TYPE_NAME(t) == t.ptr.name

(***************************************************************************)
(* Descriptors.                                                            *)
(***************************************************************************)
\* What a block handed out by pemalloc may hold where element_type lies:
\* nothing, or whatever an earlier use of the memory left there.
IndeterminateTypes ==
    {ZEND_TYPE_INIT_NONE,
     [type_mask |-> {"MAY_BE_NULL", "MAY_BE_TRUE", "MAY_BE_DOUBLE", "MAY_BE_ARRAY",
                     "MAY_BE_RESOURCE", ZEND_TYPE_ARRAY_SHAPE_BIT},
      ptr |-> [p |-> "indeterminate"]],
     [type_mask |-> MayBeBits \cup ZEND_TYPE_EXTENDED_ARRAY_MASK,
      ptr |-> [p |-> "indeterminate"]]}

\* zend_array_of_alloc sets refcount and depth and leaves element_type as
\* the block held it: the descriptors it can return.
zend_array_of_alloc ==
    {[element_type |-> t, refcount |-> 1, depth |-> 1] : t \in IndeterminateTypes}

zend_array_shape_alloc(n) ==
    [num_elements |-> n, refcount |-> 1, shape_hash |-> <<0, 0>>, elements |-> <<>>]

(***************************************************************************)
(* 32-bit unsigned arithmetic on two 16-bit halves <<high, low>>.          *)
(***************************************************************************)
Half == 65536

U32(n) == <<(n \div Half) % Half, n % Half>>

RECURSIVE Xor16(_, _)
Xor16(a, b) ==
    IF a = 0 THEN b
    ELSE IF b = 0 THEN a
    ELSE ((a + b) % 2) + 2 * Xor16(a \div 2, b \div 2)

Xor32(x, y) == <<Xor16(x[1], y[1]), Xor16(x[2], y[2])>>

\* (hash << 5) + hash
Times33(x) ==
    LET lo == 33 * x[2] IN <<(33 * x[1] + lo \div Half) % Half, lo % Half>>

Add32(x, n) ==
    LET lo == x[2] + n IN <<(x[1] + lo \div Half) % Half, lo % Half>>

DJB2Init == 5381

\* ZSTR_H: the host's DJBX33A string hash, low 32 bits.
CharCodes ==
    ("" :> <<>>) @@
    [id |-> <<105, 100>>, name |-> <<110, 97, 109, 101>>, extra |-> <<101, 120, 116, 114, 97>>]

RECURSIVE HashChars(_, _)
HashChars(h, cs) ==
    IF cs = <<>> THEN h ELSE HashChars(Add32(Times33(h), Head(cs)), Tail(cs))

ZSTR_H(s) == HashChars(U32(DJB2Init), CharCodes[s])

RECURSIVE HashElements(_, _, _)
HashElements(hash, elements, i) ==
    IF i > Len(elements) THEN hash
    ELSE LET elem == elements[i]
             h1 == IF elem.is_string_key /\ elem.key # NULL
                   THEN Xor32(Times33(hash), ZSTR_H(ZSTR_VAL(elem.key)))
                   ELSE Xor32(Times33(hash), U32(elem.key_num))
             h2 == Xor32(Times33(h1), U32(MaskSum(elem.type.type_mask)))
             h3 == Xor32(Times33(h2), U32(IF elem.is_optional THEN 1 ELSE 0))
         IN HashElements(h3, elements, i + 1)

zend_compute_shape_hash(shape) ==
    HashElements(Xor32(Times33(U32(DJB2Init)), U32(shape.num_elements)), shape.elements, 1)

(***************************************************************************)
(* The type-expression tree handed over by the parser.                     *)
(***************************************************************************)
AstType(code) == [kind |-> "ZEND_AST_TYPE", attr |-> code]
AstName(s) == [kind |-> "ZEND_AST_NAME", name |-> s]
AstNullable(c) == [kind |-> "ZEND_AST_NULLABLE_TYPE", child |-> c]
AstUnion(cs) == [kind |-> "ZEND_AST_TYPE_UNION", children |-> cs]
AstIntersection(cs) == [kind |-> "ZEND_AST_TYPE_INTERSECTION", children |-> cs]
AstArrayOf(c) == [kind |-> "ZEND_AST_TYPE_ARRAY_OF", child |-> c]
AstShape(es) == [kind |-> "ZEND_AST_TYPE_ARRAY_SHAPE", elems |-> es]
\* A shape element: key literal, optional marker (attr bit 0), type node.
AstElement(kz, opt, t) ==
    [kind |-> "ZEND_AST_SHAPE_ELEMENT", key_zval |-> kz, optional |-> opt, type_ast |-> t]

(***************************************************************************)
(* Compilation.  zend_error_noreturn leaves the compiler: the result of    *)
(* compiling the declaration is then the error, not a type.                *)
(***************************************************************************)
CompileError(msg) == [error |-> msg]
IsError(t) == "error" \in DOMAIN t

RECURSIVE zend_compile_type_internal(_)
RECURSIVE CompileElements(_, _, _)
RECURSIVE CompileMembers(_, _, _)

\* The loop of zend_compile_array_shape_type over the element list.
CompileElements(list, i, acc) ==
    IF i > Len(list) THEN [list |-> acc]
    ELSE LET element_ast == list[i]
             key_zval == element_ast.key_zval
         IN IF Z_TYPE_P(key_zval) \notin {"string", "long"}
            THEN CompileError("Shape key must be a string or integer")
            ELSE LET t == zend_compile_type_internal(element_ast.type_ast)
                     elem == [key |-> IF Z_TYPE_P(key_zval) = "string"
                                      THEN Ptr(key_zval.str) ELSE NULL,
                              key_num |-> IF Z_TYPE_P(key_zval) = "string" THEN 0
                                          ELSE key_zval.lval,
                              is_string_key |-> Z_TYPE_P(key_zval) = "string",
                              is_optional |-> element_ast.optional,
                              type |-> t]
                 IN IF IsError(t) THEN t
                    ELSE CompileElements(list, i + 1, Append(acc, elem))

\* A compiler that keeps, for a key declared more than once, only the last
\* occurrence.
RECURSIVE LastOccurrences(_)
LastOccurrences(elems) ==
    IF elems = <<>> THEN <<>>
    ELSE IF \E j \in 2..Len(elems) : elems[j].key_zval = Head(elems).key_zval
    THEN LastOccurrences(Tail(elems))
    ELSE <<Head(elems)>> \o LastOccurrences(Tail(elems))

CompileShapeKeepingLastKey(a) ==
    LET compiled == CompileElements(LastOccurrences(a.elems), 1, <<>>)
    IN IF IsError(compiled) THEN compiled
       ELSE LET shape0 == [zend_array_shape_alloc(Len(compiled.list)) EXCEPT
                              !.elements = compiled.list]
                shape == [shape0 EXCEPT !.shape_hash = zend_compute_shape_hash(shape0)]
            IN ZEND_TYPE_SET_ARRAY_SHAPE_PTR(ZEND_TYPE_INIT_NONE, shape)

zend_compile_array_shape_type(a) ==
    LET compiled == CompileElements(a.elems, 1, <<>>)
    IN IF IsError(compiled) THEN compiled
       ELSE LET shape0 == [zend_array_shape_alloc(Len(a.elems)) EXCEPT !.elements = compiled.list]
                shape == [shape0 EXCEPT !.shape_hash = zend_compute_shape_hash(shape0)]
            IN ZEND_TYPE_SET_ARRAY_SHAPE_PTR(ZEND_TYPE_INIT_NONE, shape)

\* What zend_compile_array_of_type does once the element type is compiled:
\* the descriptor, its depth (a uint8_t) and the resulting type.
ArrayOfAround(element_type) ==
    LET depth == IF ZEND_TYPE_IS_ARRAY_OF(element_type)
                 THEN (ZEND_TYPE_ARRAY_OF_PTR(element_type).depth + 1) % 256
                 ELSE 1
        \* element_type is written before anything reads it, so the
        \* descriptor is the same whatever the block held.
        filled == {[block EXCEPT !.element_type = element_type, !.depth = depth] :
                      block \in zend_array_of_alloc}
        array_of == CHOOSE d \in filled : TRUE
    IN ZEND_TYPE_SET_ARRAY_OF_PTR(ZEND_TYPE_INIT_NONE, array_of)

zend_compile_array_of_type(a) ==
    LET element_type == zend_compile_type_internal(a.child)
    IN IF IsError(element_type) THEN element_type ELSE ArrayOfAround(element_type)

\* A member loop that leaves out the members that do not compile.
CompileMembersSkippingErrors(list, i, acc) ==
    IF i > Len(list) THEN [list |-> acc]
    ELSE LET t == zend_compile_type_internal(list[i])
         IN CompileMembers(list, i + 1, IF IsError(t) THEN acc ELSE Append(acc, t))

\* The member loops of the union and intersection cases.
CompileMembers(list, i, acc) ==
    IF i > Len(list) THEN [list |-> acc]
    ELSE LET t == zend_compile_type_internal(list[i])
         IN IF IsError(t) THEN t ELSE CompileMembers(list, i + 1, Append(acc, t))

zend_compile_type_internal(a) ==
    CASE a.kind = "ZEND_AST_TYPE_ARRAY_OF" -> zend_compile_array_of_type(a)
      [] a.kind = "ZEND_AST_TYPE_ARRAY_SHAPE" -> zend_compile_array_shape_type(a)
      [] a.kind = "ZEND_AST_TYPE" -> ZEND_TYPE_INIT_CODE(a.attr)
      [] a.kind \in {"ZEND_AST_CLASS_TYPE", "ZEND_AST_NAME"} -> ZEND_TYPE_INIT_CLASS(a.name)
      [] a.kind = "ZEND_AST_NULLABLE_TYPE" ->
            LET t == zend_compile_type_internal(a.child)
            IN IF IsError(t) THEN t
               ELSE [t EXCEPT !.type_mask = t.type_mask \cup {"MAY_BE_NULL"}]
      [] a.kind = "ZEND_AST_TYPE_UNION" ->
            LET members == CompileMembers(a.children, 1, <<>>)
            IN IF IsError(members) THEN members
               ELSE LET t == ZEND_TYPE_SET_LIST(ZEND_TYPE_INIT_NONE,
                                 [num_types |-> Len(a.children), types |-> members.list])
                    IN [t EXCEPT !.type_mask = t.type_mask \cup {"_ZEND_TYPE_UNION_BIT"}]
      [] a.kind = "ZEND_AST_TYPE_INTERSECTION" ->
            LET members == CompileMembers(a.children, 1, <<>>)
            IN IF IsError(members) THEN members
               ELSE LET t == ZEND_TYPE_SET_LIST(ZEND_TYPE_INIT_NONE,
                                 [num_types |-> Len(a.children), types |-> members.list])
                    IN [t EXCEPT !.type_mask = t.type_mask \cup {"_ZEND_TYPE_INTERSECTION_BIT"}]
      [] OTHER -> CompileError("Invalid type AST node kind")

(***************************************************************************)
(* Runtime validation.  A zval* into the checked HashTable is the path of  *)
(* bucket positions that leads to it; NULL is the empty path.              *)
(***************************************************************************)
RECURSIVE zend_check_type_extended(_, _)
RECURSIVE zend_validate_array_of(_, _)
RECURSIVE zend_validate_array_shape(_, _)
RECURSIVE ArrayOfLoop(_, _, _)
RECURSIVE ShapeLoop(_, _, _)
RECURSIVE IntersectionLoop(_, _, _)
RECURSIVE UnionLoop(_, _, _)
RECURSIVE ArrayOfElement(_, _, _)
RECURSIVE ShapeElement(_, _, _)
RECURSIVE ArrayOfLoopLastFailure(_, _, _)
RECURSIVE ShapeLoopLastFailure(_, _, _)

ArrayOfPass(n) == [ok |-> TRUE, bad_element |-> NULL, examined |-> n]
ArrayOfFail(path, n) == [ok |-> FALSE, bad_element |-> path, examined |-> n]

\* The body of ZEND_HASH_FOREACH_VAL for the bucket at position i.
ArrayOfElement(array_of, ht, i) ==
    LET val == ht[i].val
        et == array_of.element_type
    IN IF ZEND_TYPE_IS_ARRAY_OF(et)
       THEN IF Z_TYPE_P(val) # "array" THEN ArrayOfFail(<<i>>, i)
            ELSE LET r == zend_validate_array_of(ZEND_TYPE_ARRAY_OF_PTR(et), Z_ARRVAL_P(val))
                 IN IF ~r.ok THEN ArrayOfFail(<<i>> \o r.bad_element, i)
                    ELSE ArrayOfPass(i)
       ELSE IF ZEND_TYPE_IS_ARRAY_SHAPE(et)
       THEN IF Z_TYPE_P(val) # "array" THEN ArrayOfFail(<<i>>, i)
            ELSE LET r == zend_validate_array_shape(ZEND_TYPE_ARRAY_SHAPE_PTR(et), Z_ARRVAL_P(val))
                 IN IF ~r.ok
                    THEN ArrayOfFail(IF r.bad_value # NULL THEN <<i>> \o r.bad_value ELSE <<i>>, i)
                    ELSE ArrayOfPass(i)
       ELSE IF ~zend_check_type_extended(et, val) THEN ArrayOfFail(<<i>>, i)
            ELSE ArrayOfPass(i)

\* A loop that keeps going after a failing element and so captures the
\* last one.
ArrayOfLoopLastFailure(array_of, ht, i) ==
    IF i > Len(ht) THEN ArrayOfPass(Len(ht))
    ELSE LET rest == ArrayOfLoopLastFailure(array_of, ht, i + 1)
         IN IF ~rest.ok THEN rest
            ELSE IF ~ArrayOfElement(array_of, ht, i).ok THEN ArrayOfElement(array_of, ht, i)
            ELSE rest

\* ZEND_HASH_FOREACH_VAL over ht, from bucket i on: return false at the
\* first failing bucket.
ArrayOfLoop(array_of, ht, i) ==
    IF i > Len(ht) THEN ArrayOfPass(Len(ht))
    ELSE IF ~ArrayOfElement(array_of, ht, i).ok THEN ArrayOfElement(array_of, ht, i)
    ELSE ArrayOfLoop(array_of, ht, i + 1)

zend_validate_array_of(array_of, ht) ==
    IF zend_hash_num_elements(ht) = 0 THEN ArrayOfPass(0)
    ELSE ArrayOfLoop(array_of, ht, 1)

ShapePass(n) ==
    [ok |-> TRUE, missing_key |-> "", missing_key_num |-> 0, is_string_key |-> FALSE,
     bad_value |-> NULL, failed_element |-> NULL, examined |-> n]

ShapeMissing(elem, n) ==
    [ok |-> FALSE,
     missing_key |-> IF elem.is_string_key THEN ZSTR_VAL(elem.key) ELSE "",
     missing_key_num |-> IF ~elem.is_string_key THEN elem.key_num ELSE 0,
     is_string_key |-> elem.is_string_key,
     bad_value |-> NULL, failed_element |-> Ptr(elem), examined |-> n]

ShapeBadValue(path, elem, n) ==
    [ok |-> FALSE, missing_key |-> "", missing_key_num |-> 0, is_string_key |-> FALSE,
     bad_value |-> path, failed_element |-> Ptr(elem), examined |-> n]

\* "Propagate inner failure details"
ShapePropagate(inner, j, elem, n) ==
    [ok |-> FALSE,
     missing_key |-> inner.missing_key,
     missing_key_num |-> inner.missing_key_num,
     is_string_key |-> inner.is_string_key,
     bad_value |-> IF inner.bad_value # NULL THEN <<j>> \o inner.bad_value ELSE <<j>>,
     failed_element |-> IF inner.failed_element # NULL THEN inner.failed_element ELSE Ptr(elem),
     examined |-> n]

\* Bucket position of the element's key in ht, 0 for val == NULL.
ShapeLookup(ht, elem) ==
    IF elem.is_string_key THEN HashIndex(ht, StrKey(ZSTR_VAL(elem.key)))
    ELSE HashIndex(ht, NumKey(elem.key_num))

\* The body of the loop over the declared elements, for element i
\* (counted from 1).
ShapeElement(shape, ht, i) ==
    LET elem == shape.elements[i]
        j == ShapeLookup(ht, elem)
    IN IF j = 0
       THEN IF elem.is_optional THEN ShapePass(i)
            ELSE ShapeMissing(elem, i)
       ELSE LET val == ht[j].val
            IN IF ZEND_TYPE_IS_ARRAY_OF(elem.type)
               THEN IF Z_TYPE_P(val) # "array" THEN ShapeBadValue(<<j>>, elem, i)
                    ELSE LET r == zend_validate_array_of(
                                      ZEND_TYPE_ARRAY_OF_PTR(elem.type), Z_ARRVAL_P(val))
                         IN IF ~r.ok
                            THEN ShapeBadValue(IF r.bad_element # NULL
                                               THEN <<j>> \o r.bad_element ELSE <<j>>, elem, i)
                            ELSE ShapePass(i)
               ELSE IF ZEND_TYPE_IS_ARRAY_SHAPE(elem.type)
               THEN IF Z_TYPE_P(val) # "array" THEN ShapeBadValue(<<j>>, elem, i)
                    ELSE LET r == zend_validate_array_shape(
                                      ZEND_TYPE_ARRAY_SHAPE_PTR(elem.type), Z_ARRVAL_P(val))
                         IN IF ~r.ok THEN ShapePropagate(r, j, elem, i)
                            ELSE ShapePass(i)
               ELSE IF ~zend_check_type_extended(elem.type, val)
                    THEN ShapeBadValue(<<j>>, elem, i)
                    ELSE ShapePass(i)

\* A loop that keeps going after a failing element and so reports the
\* last one.
ShapeLoopLastFailure(shape, ht, i) ==
    IF i > shape.num_elements THEN ShapePass(shape.num_elements)
    ELSE LET rest == ShapeLoopLastFailure(shape, ht, i + 1)
         IN IF ~rest.ok THEN rest
            ELSE IF ~ShapeElement(shape, ht, i).ok THEN ShapeElement(shape, ht, i)
            ELSE rest

\* for (i = 0; i < shape->num_elements; i++): return false at the first
\* failing element.
ShapeLoop(shape, ht, i) ==
    IF i > shape.num_elements THEN ShapePass(shape.num_elements)
    ELSE IF ~ShapeElement(shape, ht, i).ok THEN ShapeElement(shape, ht, i)
    ELSE ShapeLoop(shape, ht, i + 1)

\* A validation that takes the shape as the exact schema and rejects an
\* array holding more buckets than it declares.
ValidateExactShape(shape, ht) ==
    IF Len(ht) > shape.num_elements
    THEN [ShapePass(0) EXCEPT !.ok = FALSE]
    ELSE ShapeLoop(shape, ht, 1)

zend_validate_array_shape(shape, ht) == ShapeLoop(shape, ht, 1)

IntersectionLoop(list, val, i) ==
    IF i > list.num_types THEN TRUE
    ELSE IF ~zend_check_type_extended(list.types[i], val) THEN FALSE
    ELSE IntersectionLoop(list, val, i + 1)

\* A union checked like an intersection.
UnionLoopEveryMember(list, val, i) == IntersectionLoop(list, val, i)

UnionLoop(list, val, i) ==
    IF i > list.num_types THEN FALSE
    ELSE IF zend_check_type_extended(list.types[i], val) THEN TRUE
    ELSE UnionLoop(list, val, i + 1)

\* The switch over Z_TYPE_P(val) on the pure mask.
CheckMask(type_mask, val) ==
    CASE Z_TYPE_P(val) = "null" -> "MAY_BE_NULL" \in type_mask
      [] Z_TYPE_P(val) = "false" -> type_mask \cap ({"MAY_BE_FALSE"} \cup MAY_BE_BOOL) # {}
      [] Z_TYPE_P(val) = "true" -> type_mask \cap ({"MAY_BE_TRUE"} \cup MAY_BE_BOOL) # {}
      [] Z_TYPE_P(val) = "long" -> "MAY_BE_LONG" \in type_mask
      [] Z_TYPE_P(val) = "double" -> "MAY_BE_DOUBLE" \in type_mask
      [] Z_TYPE_P(val) = "string" -> "MAY_BE_STRING" \in type_mask
      [] Z_TYPE_P(val) = "array" -> "MAY_BE_ARRAY" \in type_mask
      [] Z_TYPE_P(val) = "object" ->
            IF "MAY_BE_OBJECT" \in type_mask THEN TRUE
            ELSE IF "MAY_BE_ITERABLE" \in type_mask
                    /\ instanceof_function(Z_OBJCE_P(val), zend_ce_traversable) THEN TRUE
            ELSE FALSE
      [] Z_TYPE_P(val) = "resource" -> "MAY_BE_RESOURCE" \in type_mask
      [] OTHER -> FALSE

zend_check_type_extended(t, val0) ==
    LET val == IF Z_ISREF_P(val0) THEN Z_REFVAL_P(val0) ELSE val0
    IN IF ZEND_TYPE_IS_ARRAY_OF(t)
       THEN IF Z_TYPE_P(val) # "array" THEN FALSE
            ELSE zend_validate_array_of(ZEND_TYPE_ARRAY_OF_PTR(t), Z_ARRVAL_P(val)).ok
       ELSE IF ZEND_TYPE_IS_ARRAY_SHAPE(t)
       THEN IF Z_TYPE_P(val) # "array" THEN FALSE
            ELSE zend_validate_array_shape(ZEND_TYPE_ARRAY_SHAPE_PTR(t), Z_ARRVAL_P(val)).ok
       ELSE IF ZEND_TYPE_HAS_LIST(t)
       THEN IF "_ZEND_TYPE_INTERSECTION_BIT" \in t.type_mask
            THEN IntersectionLoop(ZEND_TYPE_LIST(t), val, 1)
            ELSE UnionLoop(ZEND_TYPE_LIST(t), val, 1)
       ELSE IF ZEND_TYPE_HAS_NAME(t)
       THEN IF Z_TYPE_P(val) # "object" THEN FALSE
            ELSE LET expected_ce == zend_lookup_class(ZEND_TYPE_NAME(t))
                 IN IF expected_ce = NULL THEN FALSE
                    ELSE instanceof_function(Z_OBJCE_P(val), expected_ce[1])
       ELSE CheckMask(ZEND_TYPE_PURE_MASK(t), val)

(***************************************************************************)
(* Type to string.                                                         *)
(***************************************************************************)
Digits == <<"0", "1", "2", "3", "4", "5", "6", "7", "8", "9">>

RECURSIVE smart_str_append_long(_)
smart_str_append_long(n) ==
    IF n < 10 THEN Digits[n + 1]
    ELSE smart_str_append_long(n \div 10) \o Digits[(n % 10) + 1]

\* The keywords of the built-in branch, in the order the code appends them,
\* each with the mask it is tested with: (mask & M) is non-zero.
MaskKeywords ==
    <<<<MAY_BE_BOOL, "bool">>, <<{"MAY_BE_LONG"}, "int">>, <<{"MAY_BE_DOUBLE"}, "float">>,
      <<{"MAY_BE_STRING"}, "string">>, <<{"MAY_BE_ARRAY"}, "array">>,
      <<{"MAY_BE_OBJECT"}, "object">>, <<{"MAY_BE_CALLABLE"}, "callable">>,
      <<{"MAY_BE_ITERABLE"}, "iterable">>, <<{"MAY_BE_VOID"}, "void">>,
      <<{"MAY_BE_NEVER"}, "never">>, <<{"MAY_BE_NULL"}, "null">>,
      <<{"MAY_BE_FALSE"}, "false">>, <<{"MAY_BE_TRUE"}, "true">>,
      <<{"MAY_BE_MIXED"}, "mixed">>>>

RECURSIVE AppendKeywords(_, _, _, _)
AppendKeywords(mask, i, buf, first) ==
    IF i > Len(MaskKeywords) THEN (IF first THEN buf \o "unknown" ELSE buf)
    ELSE IF MaskKeywords[i][1] \cap mask # {}
         THEN AppendKeywords(mask, i + 1,
                  buf \o (IF first THEN "" ELSE "|") \o MaskKeywords[i][2], FALSE)
         ELSE AppendKeywords(mask, i + 1, buf, first)

RECURSIVE zend_type_to_string_extended(_)
RECURSIVE ShapeToString(_, _, _)
RECURSIVE ListToString(_, _, _, _)

ShapeToString(shape, i, buf) ==
    IF i > shape.num_elements THEN buf
    ELSE LET elem == shape.elements[i]
         IN ShapeToString(shape, i + 1,
                buf \o (IF i > 1 THEN ", " ELSE "")
                    \o (IF elem.is_string_key /\ elem.key # NULL THEN ZSTR_VAL(elem.key)
                        ELSE smart_str_append_long(elem.key_num))
                    \o (IF elem.is_optional THEN "?" ELSE "")
                    \o ": "
                    \o zend_type_to_string_extended(elem.type))

ListToString(list, separator, i, buf) ==
    IF i > list.num_types THEN buf
    ELSE ListToString(list, separator, i + 1,
             buf \o (IF i > 1 THEN separator ELSE "")
                 \o zend_type_to_string_extended(list.types[i]))

\* The built-in branch: "?T" when null comes with exactly one other bit,
\* then the keywords of the bits.
PlainToString(t) ==
    LET mask0 == ZEND_TYPE_PURE_MASK(t)
        non_null == mask0 \ {"MAY_BE_NULL"}
        prefix == "MAY_BE_NULL" \in mask0 /\ Cardinality(non_null) = 1
    IN AppendKeywords(IF prefix THEN non_null ELSE mask0, 1,
                      IF prefix THEN "?" ELSE "", TRUE)

zend_type_to_string_extended(t) ==
    IF ZEND_TYPE_IS_ARRAY_OF(t)
    THEN "array<" \o zend_type_to_string_extended(ZEND_TYPE_ARRAY_OF_PTR(t).element_type) \o ">"
    ELSE IF ZEND_TYPE_IS_ARRAY_SHAPE(t)
    THEN ShapeToString(ZEND_TYPE_ARRAY_SHAPE_PTR(t), 1, "array{") \o "}"
    ELSE IF ZEND_TYPE_HAS_LIST(t)
    THEN ListToString(ZEND_TYPE_LIST(t),
             IF "_ZEND_TYPE_INTERSECTION_BIT" \in t.type_mask THEN "&" ELSE "|", 1, "")
    ELSE IF ZEND_TYPE_HAS_NAME(t)
    THEN ZEND_TYPE_NAME(t)
    ELSE PlainToString(t)

(***************************************************************************)
(* Argument and return verification.  zend_type_error is the diagnostic:   *)
(* which message, the expected-type string, the actual kind, the key.      *)
(***************************************************************************)
\* The host's zend_zval_type_name: dereferences, then names the kind.
zend_zval_type_name(val0) ==
    LET val == ZVAL_DEREF(val0)
    IN CASE Z_TYPE_P(val) = "null" -> "null"
         [] Z_TYPE_P(val) \in {"false", "true"} -> "bool"
         [] Z_TYPE_P(val) = "long" -> "int"
         [] Z_TYPE_P(val) = "double" -> "float"
         [] Z_TYPE_P(val) = "string" -> "string"
         [] Z_TYPE_P(val) = "array" -> "array"
         [] Z_TYPE_P(val) = "object" -> "object"
         [] Z_TYPE_P(val) = "resource" -> "resource"
         [] OTHER -> "unknown"

\* The zval a path of bucket positions points to.
RECURSIVE Follow(_, _)
Follow(ht, path) ==
    IF Len(path) = 1 THEN ht[path[1]].val
    ELSE Follow(Z_ARRVAL_P(ht[path[1]].val), Tail(path))

NoKey == [is_string_key |-> FALSE, key |-> "", key_num |-> 0]

TypeError(message, expected, actual, key) ==
    [valid |-> FALSE, message |-> message, expected |-> expected, actual |-> actual, key |-> key]

Verified == [valid |-> TRUE, message |-> "", expected |-> "", actual |-> "", key |-> NoKey]

\* "must be of type array<%s>, array containing %s given"
VerifyArrayOf(t, val) ==
    IF Z_TYPE_P(val) # "array"
    THEN TypeError("must be of type", zend_type_to_string_extended(t),
                   zend_zval_type_name(val), NoKey)
    ELSE LET array_of == ZEND_TYPE_ARRAY_OF_PTR(t)
             r == zend_validate_array_of(array_of, Z_ARRVAL_P(val))
         IN IF ~r.ok
            THEN TypeError("array containing",
                     zend_type_to_string_extended(array_of.element_type),
                     IF r.bad_element # NULL
                     THEN zend_zval_type_name(Follow(Z_ARRVAL_P(val), r.bad_element))
                     ELSE "invalid value",
                     NoKey)
            ELSE Verified

VerifyShape(t, val) ==
    IF Z_TYPE_P(val) # "array"
    THEN TypeError("must be of type", zend_type_to_string_extended(t),
                   zend_zval_type_name(val), NoKey)
    ELSE LET r == zend_validate_array_shape(ZEND_TYPE_ARRAY_SHAPE_PTR(t), Z_ARRVAL_P(val))
             is_missing_key_error == r.failed_element # NULL /\ r.bad_value = NULL
         IN IF r.ok THEN Verified
            ELSE IF is_missing_key_error
            THEN TypeError("missing required key", "", "",
                     IF r.is_string_key THEN StrKey(r.missing_key)
                     ELSE NumKey(r.missing_key_num))
            ELSE IF r.bad_value # NULL /\ r.failed_element # NULL
            THEN LET failed_element == r.failed_element[1]
                 IN TypeError("key must be of type",
                        zend_type_to_string_extended(failed_element.type),
                        zend_zval_type_name(Follow(Z_ARRVAL_P(val), r.bad_value)),
                        IF failed_element.is_string_key /\ failed_element.key # NULL
                        THEN StrKey(ZSTR_VAL(failed_element.key))
                        ELSE NumKey(failed_element.key_num))
            ELSE TypeError("does not match type", zend_type_to_string_extended(t), "", NoKey)

VerifyFallThrough(t, val) ==
    IF ~zend_check_type_extended(t, val)
    THEN TypeError("must be of type", zend_type_to_string_extended(t),
                   zend_zval_type_name(val), NoKey)
    ELSE Verified

zend_verify_return_type_extended(return_type, retval) ==
    IF ~ZEND_TYPE_IS_SET(return_type) THEN Verified
    ELSE IF ZEND_TYPE_CONTAINS_CODE(return_type, "IS_VOID")
    THEN IF Z_TYPE_P(retval) # "null"
         THEN TypeError("must be of type void", "void", zend_zval_type_name(retval), NoKey)
         ELSE Verified
    ELSE IF ZEND_TYPE_CONTAINS_CODE(return_type, "IS_NEVER")
    THEN TypeError("never-returning function must not return", "never", "", NoKey)
    ELSE IF ZEND_TYPE_IS_ARRAY_OF(return_type) THEN VerifyArrayOf(return_type, retval)
    ELSE IF ZEND_TYPE_IS_ARRAY_SHAPE(return_type) THEN VerifyShape(return_type, retval)
    ELSE VerifyFallThrough(return_type, retval)

zend_verify_arg_type_extended(arg_type, arg) ==
    IF ~ZEND_TYPE_IS_SET(arg_type) THEN Verified
    ELSE IF ZEND_TYPE_IS_ARRAY_OF(arg_type) THEN VerifyArrayOf(arg_type, arg)
    ELSE IF ZEND_TYPE_IS_ARRAY_SHAPE(arg_type) THEN VerifyShape(arg_type, arg)
    ELSE VerifyFallThrough(arg_type, arg)

(***************************************************************************)
(* Equivalence of two types.                                               *)
(***************************************************************************)
\* zend_string_equals_ci compares the lower-cased names.
zend_string_equals(x, y) == x = y
zend_string_equals_ci(x, y) == LowerCase[x] = LowerCase[y]

RECURSIVE zend_types_are_equivalent(_, _)
RECURSIVE EquivalentElements(_, _, _)

EquivalentElements(shape_a, shape_b, i) ==
    IF i > shape_a.num_elements THEN TRUE
    ELSE LET elem_a == shape_a.elements[i]
             elem_b == shape_b.elements[i]
         IN IF elem_a.is_string_key # elem_b.is_string_key THEN FALSE
            ELSE IF elem_a.is_string_key /\ ~zend_string_equals(elem_a.key, elem_b.key) THEN FALSE
            ELSE IF ~elem_a.is_string_key /\ elem_a.key_num # elem_b.key_num THEN FALSE
            ELSE IF elem_a.is_optional # elem_b.is_optional THEN FALSE
            ELSE IF ~zend_types_are_equivalent(elem_a.type, elem_b.type) THEN FALSE
            ELSE EquivalentElements(shape_a, shape_b, i + 1)

\* An array<T> branch that does not look at the element types.
ArrayOfEquivalentWhateverElements(a, b) == ZEND_TYPE_IS_ARRAY_OF(b)

\* The branch for a an array<T>: b must be one, element types compared
\* recursively.
EquivalentArrayOf(a, b) ==
    IF ~ZEND_TYPE_IS_ARRAY_OF(b) THEN FALSE
    ELSE zend_types_are_equivalent(ZEND_TYPE_ARRAY_OF_PTR(a).element_type,
                                   ZEND_TYPE_ARRAY_OF_PTR(b).element_type)

\* The branch for a a shape: hash, element count, then element by element.
EquivalentShape(a, b) ==
    LET shape_a == ZEND_TYPE_ARRAY_SHAPE_PTR(a)
        shape_b == ZEND_TYPE_ARRAY_SHAPE_PTR(b)
    IN IF ~ZEND_TYPE_IS_ARRAY_SHAPE(b) THEN FALSE
       ELSE IF shape_a.shape_hash # shape_b.shape_hash THEN FALSE
       ELSE IF shape_a.num_elements # shape_b.num_elements THEN FALSE
       ELSE EquivalentElements(shape_a, shape_b, 1)

\* A comparison of class names that distinguishes letter case.
EquivalentPlainCaseSensitive(a, b) ==
    /\ ZEND_TYPE_PURE_MASK(a) = ZEND_TYPE_PURE_MASK(b)
    /\ ZEND_TYPE_HAS_NAME(a) = ZEND_TYPE_HAS_NAME(b)
    /\ ZEND_TYPE_HAS_NAME(a) => zend_string_equals(ZEND_TYPE_NAME(a), ZEND_TYPE_NAME(b))

\* "For non-extended types, compare masks and class names"
EquivalentPlain(a, b) ==
    IF ZEND_TYPE_PURE_MASK(a) # ZEND_TYPE_PURE_MASK(b) THEN FALSE
    ELSE IF ZEND_TYPE_HAS_NAME(a) /\ ZEND_TYPE_HAS_NAME(b)
    THEN zend_string_equals_ci(ZEND_TYPE_NAME(a), ZEND_TYPE_NAME(b))
    ELSE ~ZEND_TYPE_HAS_NAME(a) /\ ~ZEND_TYPE_HAS_NAME(b)

zend_types_are_equivalent(a, b) ==
    IF (a.type_mask \cap ZEND_TYPE_EXTENDED_ARRAY_MASK)
           # (b.type_mask \cap ZEND_TYPE_EXTENDED_ARRAY_MASK) THEN FALSE
    ELSE IF ZEND_TYPE_IS_ARRAY_OF(a) THEN EquivalentArrayOf(a, b)
    ELSE IF ZEND_TYPE_IS_ARRAY_SHAPE(a) THEN EquivalentShape(a, b)
    ELSE EquivalentPlain(a, b)

(***************************************************************************)
(* Ownership.  A descriptor is named by the path that leads to it from the *)
(* declaration: <<>> is the payload of the declaration itself, p \o <<i>>   *)
(* the payload of the i-th type stored in the descriptor at p.  Freed      *)
(* memory keeps the content it had when it was freed.                      *)
(***************************************************************************)
zend_array_shape_addref(shape) == [shape EXCEPT !.refcount = @ + 1]
zend_array_of_addref(array_of) == [array_of EXCEPT !.refcount = @ + 1]

\* A release that frees the descriptor whatever the count.
ReleaseAlwaysFrees(desc) ==
    [desc |-> [desc EXCEPT !.refcount = @ - 1], free |-> TRUE]

\* --refcount == 0: the descriptor after the decrement, and whether the
\* call frees it.
zend_array_of_release(array_of) ==
    [desc |-> [array_of EXCEPT !.refcount = @ - 1], free |-> array_of.refcount - 1 = 0]

zend_array_shape_release(shape) ==
    [desc |-> [shape EXCEPT !.refcount = @ - 1], free |-> shape.refcount - 1 = 0]

RECURSIVE zend_type_release_extended(_, _)

\* The loop over the types stored in a shape or in a list: each is released
\* in place, which leaves ZEND_TYPE_INIT_NONE behind.
RECURSIVE ReleaseStored(_, _, _, _)
ReleaseStored(types, i, path, frees) ==
    IF i > Len(types) THEN frees
    ELSE ReleaseStored(types, i + 1, path,
                       frees \o zend_type_release_extended(types[i], path \o <<i>>).frees)

\* zend_type_release_extended(&t): the descriptors freed, in order, and the
\* payload t pointed to as the call leaves it.
zend_type_release_extended(t, path) ==
    IF ZEND_TYPE_IS_ARRAY_OF(t)
    THEN LET array_of == ZEND_TYPE_ARRAY_OF_PTR(t)
             inner    == zend_type_release_extended(array_of.element_type, path \o <<1>>)
             rel      == zend_array_of_release(
                             [array_of EXCEPT !.element_type = ZEND_TYPE_INIT_NONE])
         IN [frees |-> inner.frees \o (IF rel.free THEN <<path>> ELSE <<>>),
             payload |-> rel.desc]
    ELSE IF ZEND_TYPE_IS_ARRAY_SHAPE(t)
    THEN LET shape == ZEND_TYPE_ARRAY_SHAPE_PTR(t)
             inner == ReleaseStored([i \in 1..shape.num_elements |-> shape.elements[i].type],
                                    1, path, <<>>)
             rel   == zend_array_shape_release(
                          [shape EXCEPT !.elements =
                              [i \in 1..shape.num_elements |->
                                  [shape.elements[i] EXCEPT !.type = ZEND_TYPE_INIT_NONE]]])
         IN [frees |-> inner \o (IF rel.free THEN <<path>> ELSE <<>>),
             payload |-> rel.desc]
    ELSE IF ZEND_TYPE_HAS_LIST(t)
    THEN LET list == ZEND_TYPE_LIST(t)
         IN [frees |-> ReleaseStored(list.types, 1, path, <<>>) \o <<path>>,
             payload |-> [list EXCEPT !.types =
                             [i \in 1..list.num_types |-> ZEND_TYPE_INIT_NONE]]]
    ELSE [frees |-> <<>>, payload |-> t.ptr]

(***************************************************************************)
(* The declarations and values explored.                                   *)
(***************************************************************************)
IntAst == AstType("IS_LONG")
StrAst == AstType("IS_STRING")
LeafAsts == {IntAst, StrAst}

\* Key literals of shape elements.
KeyLiterals == {ZString("id"), ZString("name"), ZLong(0)}

\* Element lists of at most n elements with distinct keys, any order.
RECURSIVE ElementLists(_, _, _)
ElementLists(n, free, types) ==
    IF n = 0 THEN {<<>>}
    ELSE {<<>>} \cup
         UNION {{<<AstElement(kz, opt, t)>> \o rest :
                   rest \in ElementLists(n - 1, free \ {kz}, types)} :
                kz \in free, opt \in BOOLEAN, t \in types}

\* One level of declarations: wide shapes and array<T> over the leaves.
FlatAsts ==
    {AstArrayOf(t) : t \in LeafAsts}
        \cup {AstShape(es) : es \in ElementLists(MaxElems, KeyLiterals, LeafAsts)}

\* Nesting: one array<.>, one-element shape or nullable wrapper per level.
Wraps(ts) ==
    {AstArrayOf(t) : t \in ts}
        \cup {AstShape(<<AstElement(kz, opt, t)>>) :
                 kz \in {ZString("id"), ZLong(0)}, opt \in BOOLEAN, t \in ts}

InnerAsts == Wraps(LeafAsts)
NestedAsts == Wraps(InnerAsts \cup {AstNullable(t) : t \in InnerAsts})

\* Shapes that hold scalar, array<T> and shape elements side by side.
MixedTypes == {IntAst, AstArrayOf(IntAst), AstShape(<<AstElement(ZString("id"), FALSE, IntAst)>>)}
MixedAsts ==
    {AstShape(es) : es \in ElementLists(MaxElems, {ZString("id"), ZLong(0)}, MixedTypes)}

\* Built-in, class and composite declarations.
TypeCodes ==
    {"IS_NULL", "IS_FALSE", "IS_TRUE", "_IS_BOOL", "IS_LONG", "IS_DOUBLE", "IS_STRING",
     "IS_ARRAY", "IS_OBJECT", "IS_CALLABLE", "IS_ITERABLE", "IS_VOID", "IS_NEVER", "IS_MIXED"}

PlainAsts ==
    {AstType(c) : c \in TypeCodes}
        \cup {AstNullable(AstType(c)) : c \in {"IS_LONG", "_IS_BOOL", "IS_ITERABLE"}}

ClassAsts == {AstName(n) : n \in {"A", "a", "B", "Missing"}}

CompositeAsts ==
    {AstUnion(<<IntAst, StrAst>>), AstUnion(<<StrAst, AstName("A")>>),
     AstUnion(<<AstName("A"), AstName("B")>>),
     AstUnion(<<IntAst, AstArrayOf(StrAst)>>),
     AstUnion(<<AstType("IS_FALSE"), AstType("IS_NULL"), AstName("Missing")>>),
     AstIntersection(<<AstName("A"), AstName("B")>>),
     AstIntersection(<<AstName("B"), AstName("A")>>),
     AstIntersection(<<AstName("A"), AstName("Missing")>>),
     AstIntersection(<<AstType("IS_OBJECT"), AstType("IS_ITERABLE")>>),
     AstIntersection(<<AstName("A"), AstUnion(<<AstName("B"), IntAst>>)>>)}

ScalarAsts == PlainAsts \cup ClassAsts \cup CompositeAsts

\* array<T> over a class or composite element type.
ListElementAsts == {AstArrayOf(t) : t \in ClassAsts \cup CompositeAsts}

\* Shapes whose one key is the empty string: a string key, not an absent
\* one.
EmptyKeyAsts ==
    {AstShape(<<AstElement(ZString(""), opt, t)>>) : opt \in BOOLEAN, t \in LeafAsts}

Declarations ==
    FlatAsts \cup NestedAsts \cup MixedAsts \cup ScalarAsts \cup ListElementAsts
        \cup EmptyKeyAsts

\* Declarations the parser should not produce: a node of a kind the switch
\* does not know, a key literal that is neither a string nor an integer,
\* alone and under each kind of parent.
BadNodes == {[kind |-> "ZEND_AST_CONST"], AstShape(<<AstElement(ZDouble(1), FALSE, IntAst)>>)}
Parents(ts) ==
    {AstArrayOf(t) : t \in ts} \cup {AstNullable(t) : t \in ts}
        \cup {AstUnion(<<IntAst, t>>) : t \in ts}
        \cup {AstIntersection(<<t, AstName("A")>>) : t \in ts}
        \cup {AstShape(<<AstElement(ZString("id"), opt, IntAst), AstElement(ZLong(0), opt, t)>>) :
                 t \in ts, opt \in BOOLEAN}
        \cup {AstShape(<<AstElement(ZLong(0), FALSE, t), AstElement(ZNull, FALSE, IntAst)>>) :
                 t \in ts}
ErrorAsts == BadNodes \cup Parents(BadNodes) \cup Parents(Parents(BadNodes))

\* Deeper declarations: a third level and the composites one level down.
DeepAsts ==
    {AstArrayOf(t) : t \in NestedAsts} \cup Parents(InnerAsts \cup CompositeAsts)

CompileInputs == Declarations \cup DeepAsts \cup ErrorAsts

\* Buckets in the order of insertion; the keys a value array may hold.
ValueKeys == <<NumKey(0), NumKey(1), StrKey("id"), StrKey("name")>>

\* HashTables of at most n buckets over the keys from position i on.
RECURSIVE HashTables(_, _, _, _)
HashTables(keys, i, n, elems) ==
    IF i > Len(keys) \/ n = 0 THEN {<<>>}
    ELSE HashTables(keys, i + 1, n, elems) \cup
         UNION {{<<Bucket(keys[i], e)>> \o rest :
                   rest \in HashTables(keys, i + 1, n - 1, elems)} : e \in elems}

Objects == {ZObject("A"), ZObject("B"), ZObject("AB"), ZObject("It")}

ScalarValues ==
    {ZNull, ZFalse, ZTrue, ZLong(1), ZDouble("1.5"), ZString("x"), ZResource} \cup Objects

FlatElements == {ZLong(1), ZString("x")}
FlatTables == HashTables(ValueKeys, 1, MaxLen, FlatElements)
FlatValues == {ZArray(ht) : ht \in FlatTables}

\* Nested arrays: one bucket per level, values that are scalars, arrays or
\* references to them.
NestKeys == <<NumKey(0), StrKey("id")>>
NestScalars == {ZLong(1), ZString("x"), ZNull}
WithRefs(vs) == vs \cup {ZRef(v) : v \in vs}
OneBucket(elems) == {<<>>} \cup {<<Bucket(NestKeys[i], e)>> : i \in 1..Len(NestKeys), e \in elems}
InnerValues == {ZArray(ht) : ht \in OneBucket(WithRefs(NestScalars))}
NestedValues ==
    {ZArray(ht) : ht \in OneBucket(NestScalars \cup WithRefs(InnerValues))}

\* Arrays of objects and mixed scalars for class and composite element types.
ListElements == {ZLong(1), ZString("x"), ZObject("A"), ZObject("AB"), ZRef(ZObject("AB"))}
ListValues == {ZArray(ht) : ht \in HashTables(<<NumKey(0), NumKey(1)>>, 1, MaxLen, ListElements)}

\* Arrays holding scalars and arrays side by side.
MixedElements ==
    {ZLong(1), ZArray(<<>>), ZArray(<<Bucket(NumKey(0), ZLong(1))>>),
     ZArray(<<Bucket(NumKey(0), ZString("x"))>>), ZArray(<<Bucket(StrKey("id"), ZLong(1))>>),
     ZRef(ZArray(<<>>))}
MixedValues == {ZArray(ht) : ht \in HashTables(NestKeys, 1, MaxElems, MixedElements)}

TopLevel == WithRefs(ScalarValues \cup {ZArray(<<>>), ZArray(<<Bucket(NumKey(0), ZLong(1))>>)})

\* A nullable wrapper around each kind of type.
NullableAsts ==
    {AstNullable(t) :
        t \in {AstType(c) : c \in TypeCodes} \cup InnerAsts \cup ClassAsts \cup CompositeAsts}

\* Shapes that declare the same key twice.
DuplicateKeyAsts ==
    {AstShape(<<AstElement(kz, o1, t1), AstElement(kz, o2, t2)>>) :
        kz \in {ZString("id"), ZLong(0)}, o1 \in BOOLEAN, o2 \in BOOLEAN,
        t1 \in {IntAst, StrAst, AstNullable(IntAst)},
        t2 \in {IntAst, StrAst, AstNullable(IntAst)}}

\* Arrays holding the empty string as a key.
EmptyKeyValues == {ZArray(<<Bucket(StrKey(""), e)>>) : e \in FlatElements}

\* The values a declaration is checked against.
ValuesFor(a) ==
    TopLevel \cup
    (IF a \in EmptyKeyAsts THEN EmptyKeyValues ELSE {}) \cup
    (IF a \in FlatAsts THEN FlatValues \cup InnerValues ELSE {}) \cup
    (IF a \in DuplicateKeyAsts THEN InnerValues ELSE {}) \cup
    (IF a \in NestedAsts THEN NestedValues ELSE {}) \cup
    (IF a \in MixedAsts THEN MixedValues ELSE {}) \cup
    (IF a \in ListElementAsts THEN ListValues ELSE {})

(***************************************************************************)
(* The state machine: a declaration is compiled once, then values are      *)
(* bound to it at call boundaries and checked.                             *)
(***************************************************************************)
None == [none |-> TRUE]

Init ==
    /\ ast \in Declarations
    /\ type = None
    /\ other = None
    /\ value = None
    /\ pc = "parsed"
    /\ result = None
    /\ diag = None
    /\ owners = [made |-> 0, live |-> 0]
    /\ freed = <<>>
    /\ ctx = None
    /\ heap = None
    /\ levels = 0
    /\ stack = <<>>
    /\ wrapper = None

\* The declaration is compiled once, by the switch over the node kind.
Compile ==
    /\ pc = "parsed"
    /\ type' = zend_compile_type_internal(ast)
    /\ pc' = IF IsError(type') THEN "compile_error" ELSE "compiled"
    /\ owners' = IF IsError(type') THEN owners ELSE [made |-> 1, live |-> 1]
    /\ UNCHANGED <<ast, other, value, result, diag, freed, ctx, heap, levels, stack, wrapper>>

\* A validate that keeps a reference to the descriptor it was given.
ValidateKeepingReference ==
    /\ pc = "compiled"
    /\ \E v \in ValuesFor(ast) :
          /\ value' = v
          /\ result' = [ok |-> zend_check_type_extended(type, v)]
    /\ type' = IF ZEND_TYPE_HAS_EXTENDED_ARRAY(type)
               THEN [type EXCEPT !.ptr.refcount = @ + 1] ELSE type
    /\ diag' = None
    /\ pc' = "validated"
    /\ UNCHANGED <<ast, other, owners, freed, ctx, heap, levels, stack, wrapper>>

\* validate(type, value)
Validate ==
    /\ pc = "compiled"
    /\ \E v \in ValuesFor(ast) :
          /\ value' = v
          /\ result' = [ok |-> zend_check_type_extended(type, v)]
    /\ diag' = None
    /\ pc' = "validated"
    /\ UNCHANGED <<ast, type, other, owners, freed, ctx, heap, levels, stack, wrapper>>

\* A direct call of the array<T> matcher on the HashTable of an array.
ValidateArrayOf ==
    /\ pc = "compiled"
    /\ ZEND_TYPE_IS_ARRAY_OF(type)
    /\ \E v \in ValuesFor(ast) :
          /\ Z_TYPE_P(v) = "array"
          /\ value' = v
          /\ result' = zend_validate_array_of(ZEND_TYPE_ARRAY_OF_PTR(type), Z_ARRVAL_P(v))
    /\ diag' = None
    /\ pc' = "array_of_validated"
    /\ UNCHANGED <<ast, type, other, owners, freed, ctx, heap, levels, stack, wrapper>>

\* A direct call of the shape matcher on the HashTable of an array.
ValidateArrayShape ==
    /\ pc = "compiled"
    /\ ZEND_TYPE_IS_ARRAY_SHAPE(type)
    /\ \E v \in ValuesFor(ast) :
          /\ Z_TYPE_P(v) = "array"
          /\ value' = v
          /\ result' = zend_validate_array_shape(ZEND_TYPE_ARRAY_SHAPE_PTR(type), Z_ARRVAL_P(v))
    /\ diag' = None
    /\ pc' = "shape_validated"
    /\ UNCHANGED <<ast, type, other, owners, freed, ctx, heap, levels, stack, wrapper>>

VerifyArg ==
    /\ pc = "compiled"
    /\ \E v \in ValuesFor(ast) :
          /\ value' = v
          /\ diag' = zend_verify_arg_type_extended(type, v)
    /\ result' = None
    /\ pc' = "verified"
    /\ UNCHANGED <<ast, type, other, owners, freed, ctx, heap, levels, stack, wrapper>>

VerifyReturn ==
    /\ pc = "compiled"
    /\ \E v \in ValuesFor(ast) :
          /\ value' = v
          /\ diag' = zend_verify_return_type_extended(type, v)
    /\ result' = None
    /\ pc' = "verified"
    /\ UNCHANGED <<ast, type, other, owners, freed, ctx, heap, levels, stack, wrapper>>

\* The call returns; the declaration stays compiled for the next call.
Return ==
    /\ pc \in {"validated", "array_of_validated", "shape_validated", "verified", "compared",
              "stringified", "owner_released"}
    /\ pc' = "compiled"
    /\ value' = None
    /\ other' = None
    /\ result' = None
    /\ diag' = None
    /\ UNCHANGED <<ast, type, owners, freed, ctx, heap, levels, stack, wrapper>>

Next ==
    \/ Compile
    \/ Validate
    \/ ValidateArrayOf
    \/ ValidateArrayShape
    \/ VerifyArg
    \/ VerifyReturn
    \/ Return

Spec == Init /\ [][Next]_vars

\* A second declaration is compiled on its own and compared with the first.
Equivalent ==
    /\ pc = "compiled"
    /\ \E b \in Declarations :
          LET tb == zend_compile_type_internal(b)
          IN /\ other' = [ast |-> b, type |-> tb]
             /\ result' = [equivalent |-> zend_types_are_equivalent(type, tb)]
    /\ pc' = "compared"
    /\ UNCHANGED <<ast, type, value, diag, owners, freed, ctx, heap, levels, stack, wrapper>>

NextEquiv == Compile \/ Equivalent \/ Return

SpecEquiv == Init /\ [][NextEquiv]_vars

\* stringify(type)
Stringify ==
    /\ pc = "compiled"
    /\ result' = [string |-> zend_type_to_string_extended(type)]
    /\ pc' = "stringified"
    /\ UNCHANGED <<ast, type, other, value, diag, owners, freed, ctx, heap, levels, stack, wrapper>>

\* A signature that refers to the declaration is duplicated: the copy of the
\* zend_type shares the descriptor, whose count is incremented.
Duplicate ==
    /\ pc = "compiled"
    /\ owners.live >= 1 /\ owners.made < MaxOwners
    /\ ZEND_TYPE_HAS_EXTENDED_ARRAY(type)
    /\ type' = [type EXCEPT !.ptr = IF ZEND_TYPE_IS_ARRAY_OF(type)
                                     THEN zend_array_of_addref(@)
                                     ELSE zend_array_shape_addref(@)]
    /\ owners' = [made |-> owners.made + 1, live |-> owners.live + 1]
    /\ UNCHANGED <<ast, other, value, pc, result, diag, freed, ctx, heap, levels, stack, wrapper>>

\* One owner destroys its signature: zend_type_release_extended on its copy
\* of the zend_type.  The copy becomes ZEND_TYPE_INIT_NONE; type is what the
\* remaining owners refer to.
Release ==
    /\ pc = "compiled"
    /\ owners.live >= 1
    /\ LET r == zend_type_release_extended(type, <<>>)
       IN /\ freed' = freed \o r.frees
          /\ type' = IF owners.live = 1 THEN ZEND_TYPE_INIT_NONE
                     ELSE [type_mask |-> type.type_mask, ptr |-> r.payload]
    /\ owners' = [owners EXCEPT !.live = @ - 1]
    /\ pc' = IF owners.live = 1 THEN "released" ELSE "owner_released"
    /\ UNCHANGED <<ast, other, value, result, diag, ctx, heap, levels, stack, wrapper>>

NextLifecycle ==
    \/ Compile
    \/ Duplicate
    \/ Release
    \/ Validate
    \/ Stringify
    \/ Return

SpecLifecycle == Init /\ [][NextLifecycle]_vars

\* The three readers of a compiled declaration, in any sequence.
NextReaders == Compile \/ Validate \/ Stringify \/ Equivalent \/ Return

SpecReaders == Init /\ [][NextReaders]_vars

\* Declarations with a repeated key, compiled and validated.
InitDuplicates ==
    /\ ast \in DuplicateKeyAsts
    /\ type = None
    /\ other = None
    /\ value = None
    /\ pc = "parsed"
    /\ result = None
    /\ diag = None
    /\ owners = [made |-> 0, live |-> 0]
    /\ freed = <<>>
    /\ ctx = None
    /\ heap = None
    /\ levels = 0
    /\ stack = <<>>
    /\ wrapper = None

NextDuplicates == Compile \/ Validate \/ Return

SpecDuplicates == InitDuplicates /\ [][NextDuplicates]_vars

\* Nullable declarations, compiled, checked at call boundaries and rendered.
InitNullable ==
    /\ ast \in NullableAsts
    /\ type = None
    /\ other = None
    /\ value = None
    /\ pc = "parsed"
    /\ result = None
    /\ diag = None
    /\ owners = [made |-> 0, live |-> 0]
    /\ freed = <<>>
    /\ ctx = None
    /\ heap = None
    /\ levels = 0
    /\ stack = <<>>
    /\ wrapper = None

NextNullable == Compile \/ Validate \/ VerifyArg \/ VerifyReturn \/ Stringify \/ Return

SpecNullable == InitNullable /\ [][NextNullable]_vars

\* Compilation of any tree of nodes, well formed or not, and the rendering
\* of what it produced.
InitCompile ==
    /\ ast \in CompileInputs
    /\ type = None
    /\ other = None
    /\ value = None
    /\ pc = "parsed"
    /\ result = None
    /\ diag = None
    /\ owners = [made |-> 0, live |-> 0]
    /\ freed = <<>>
    /\ ctx = None
    /\ heap = None
    /\ levels = 0
    /\ stack = <<>>
    /\ wrapper = None

NextCompile == Compile \/ Stringify \/ Return

SpecCompile == InitCompile /\ [][NextCompile]_vars

\* n levels of array<...> around a declaration and around its type, built by
\* halving (the inner half first) so that long chains need no deep
\* recursion.
RECURSIVE AstChain(_, _)
AstChain(a, n) ==
    IF n = 0 THEN a
    ELSE IF n % 2 = 0
    THEN LET half == AstChain(a, n \div 2)
         IN IF half.kind = "ZEND_AST_TYPE_ARRAY_OF" THEN AstChain(half, n \div 2) ELSE a
    ELSE AstArrayOf(AstChain(a, n - 1))

RECURSIVE TypeChain(_, _)
TypeChain(t, n) ==
    IF n = 0 THEN t
    ELSE IF n % 2 = 0
    THEN LET half == TypeChain(t, n \div 2)
         IN IF ZEND_TYPE_IS_ARRAY_OF(half) THEN TypeChain(half, n \div 2) ELSE t
    ELSE ArrayOfAround(TypeChain(t, n - 1))

\* The innermost element types of the chains.
ChainBases == {IntAst, AstNullable(StrAst), AstShape(<<AstElement(ZString("id"), FALSE, IntAst)>>)}

\* The compiler has compiled the innermost element type and has returned to
\* some of the array<...> nodes around it.
InitNesting ==
    /\ \E base \in ChainBases, k \in 0..(MaxNesting - 1) :
          /\ ast = AstChain(base, k)
          /\ type = TypeChain(zend_compile_type_internal(base), k)
          /\ levels = k
    /\ other = None
    /\ value = None
    /\ pc = "compiled"
    /\ result = None
    /\ diag = None
    /\ owners = [made |-> 1, live |-> 1]
    /\ freed = <<>>
    /\ ctx = None
    /\ heap = None
    /\ stack = <<>>
    /\ wrapper = None

\* The declaration just compiled is the element type of an array<...> node:
\* zend_compile_array_of_type goes on with the compiled element type.
EncloseInArrayOf ==
    /\ pc = "compiled"
    /\ levels < MaxNesting
    /\ ast' = AstArrayOf(ast)
    /\ type' = ArrayOfAround(type)
    /\ levels' = levels + 1
    /\ UNCHANGED <<other, value, pc, result, diag, owners, freed, ctx, heap, stack, wrapper>>

NextNesting == EncloseInArrayOf

SpecNesting == InitNesting /\ [][NextNesting]_vars

\* Built-in types as the host compiler hands them over: a mask of up to
\* MaxBits of the bits that have a keyword, no payload.
PlainTypes ==
    {[type_mask |-> m, ptr |-> NullPtr] :
        m \in {x \in SUBSET (MayBeBits \ {"MAY_BE_RESOURCE"}) :
                  x # {} /\ Cardinality(x) <= MaxBits}}

InitPlain ==
    /\ type \in PlainTypes
    /\ ast = None
    /\ other = None
    /\ value = None
    /\ pc = "compiled"
    /\ result = None
    /\ diag = None
    /\ owners = [made |-> 1, live |-> 1]
    /\ freed = <<>>
    /\ ctx = None
    /\ heap = None
    /\ levels = 0
    /\ stack = <<>>
    /\ wrapper = None

NextPlain == Stringify \/ Return

SpecPlain == InitPlain /\ [][NextPlain]_vars

(***************************************************************************)
(* Introspection wrappers.  A wrapper holds a copy of the zend_type and    *)
(* the address of a descriptor (array_of, shape) or of an element inside a *)
(* shape descriptor; desc is the path of that descriptor.                  *)
(***************************************************************************)
\* The types stored in the payload of a type.
StoredTypes(t) ==
    IF ZEND_TYPE_IS_ARRAY_OF(t) THEN <<ZEND_TYPE_ARRAY_OF_PTR(t).element_type>>
    ELSE IF ZEND_TYPE_IS_ARRAY_SHAPE(t)
    THEN [i \in 1..ZEND_TYPE_ARRAY_SHAPE_PTR(t).num_elements |->
             ZEND_TYPE_ARRAY_SHAPE_PTR(t).elements[i].type]
    ELSE IF ZEND_TYPE_HAS_LIST(t) THEN ZEND_TYPE_LIST(t).types
    ELSE <<>>

\* Shapes and array<T> one and two levels deep, the declarations reflected.
ReflectedAsts == InnerAsts \cup NestedAsts

\* The descriptor at a path below a type, as the owners' zend_type sees it.
RECURSIVE DescriptorAt(_, _)
DescriptorAt(t, path) ==
    IF path = <<>> THEN t.ptr
    ELSE DescriptorAt(StoredTypes(t)[Head(path)], Tail(path))

IsFreed(path) == \E k \in 1..Len(freed) : freed[k] = path

\* reflection_type_from_zend_type: the wrapper for a type whose descriptor
\* is at path, NULL for the types that have no wrapper class.
reflection_type_from_zend_type(t, path) ==
    IF ZEND_TYPE_IS_ARRAY_OF(t)
    THEN <<[class |-> "ReflectionArrayOfType", desc |-> path, index |-> 0,
            type_mask |-> t.type_mask]>>
    ELSE IF ZEND_TYPE_IS_ARRAY_SHAPE(t)
    THEN <<[class |-> "ReflectionArrayShapeType", desc |-> path, index |-> 0,
            type_mask |-> t.type_mask]>>
    ELSE NULL

\* The type stored at a path below a type.
RECURSIVE TypeAt(_, _)
TypeAt(t, path) ==
    IF path = <<>> THEN t ELSE TypeAt(StoredTypes(t)[Head(path)], Tail(path))

\* The content a freed descriptor was left with: zend_type_release_extended
\* has set every type stored in it to ZEND_TYPE_INIT_NONE and has brought
\* its count to zero; keys, optional flags, depth and hash are as compiled.
StaleDescriptor(path) ==
    zend_type_release_extended(TypeAt(zend_compile_type_internal(ast), path), path).payload

\* The address a wrapper gets when it is built from memory that no longer
\* holds a zend_type: not the address of any descriptor of the declaration.
WildDesc == <<0>>
Dangling(path) == path = WildDesc \/ IsFreed(path)

ElementWrapper(path, i) ==
    [class |-> "ReflectionArrayShapeElement", desc |-> path, index |-> i, type_mask |-> {}]

\* The wrappers reflection_type_from_zend_type builds from other content.
WildWrappers ==
    {[class |-> c, desc |-> WildDesc, index |-> 0, type_mask |-> {"MAY_BE_ARRAY"}] :
        c \in {"ReflectionArrayOfType", "ReflectionArrayShapeType"}}

\* What a method that reads the descriptor returns.  A descriptor that was
\* freed is memory the allocator may have handed out again: the read gives
\* the old content, other content, or faults.
FreedReads == {"stale", "other", "fault"}
Read(method, v) ==
    IF Dangling(wrapper.desc)
    THEN {[method |-> method, desc |-> wrapper.desc, live |-> FALSE, value |-> r] :
             r \in IF wrapper.desc = WildDesc THEN FreedReads \ {"stale"} ELSE FreedReads}
    ELSE {[method |-> method, desc |-> wrapper.desc, live |-> TRUE, value |-> v]}

\* The loop of getElement over the elements of a shape: the wrapper of the
\* first element declared with the key, or the wrapper held when there is
\* none (NULL is returned).
FindElement(shape, key) ==
    LET found == {i \in 1..shape.num_elements :
                     /\ shape.elements[i].is_string_key = key.is_string_key
                     /\ IF key.is_string_key
                        THEN shape.elements[i].key # NULL
                             /\ zend_string_equals(ZSTR_VAL(shape.elements[i].key), key.key)
                        ELSE shape.elements[i].key_num = key.key_num}
    IN IF found = {} THEN wrapper
       ELSE ElementWrapper(wrapper.desc, CHOOSE i \in found : \A j \in found : i <= j)

\* The wrapper held after a method built one from the zend_type t it read
\* at path, or kept the one held because there is none for t.
TypeWrapper(t, path) ==
    LET obj == reflection_type_from_zend_type(t, path)
    IN IF obj # NULL THEN obj[1] ELSE wrapper

InitReflection ==
    /\ ast \in ReflectedAsts
    /\ type = None
    /\ other = None
    /\ value = None
    /\ pc = "parsed"
    /\ result = None
    /\ diag = None
    /\ owners = [made |-> 0, live |-> 0]
    /\ freed = <<>>
    /\ ctx = None
    /\ heap = None
    /\ levels = 0
    /\ stack = <<>>
    /\ wrapper = None

\* A wrapper is created for the compiled declaration; no count is touched.
Reflect ==
    /\ pc = "compiled"
    /\ wrapper = None
    /\ reflection_type_from_zend_type(type, <<>>) # NULL
    /\ wrapper' = reflection_type_from_zend_type(type, <<>>)[1]
    /\ UNCHANGED <<ast, type, other, value, pc, result, diag, owners, freed, ctx, heap, levels,
                   stack>>

\* ReflectionArrayOfType::getDepth
GetDepth ==
    /\ pc \in {"compiled", "released"}
    /\ wrapper # None /\ wrapper.class = "ReflectionArrayOfType"
    /\ result' \in Read("getDepth",
                        IF Dangling(wrapper.desc) THEN 0
                        ELSE DescriptorAt(type, wrapper.desc).depth)
    /\ UNCHANGED <<ast, type, other, value, pc, diag, owners, freed, ctx, heap, levels, stack,
                   wrapper>>

\* ReflectionArrayOfType::getElementType: the wrapper of the element type,
\* which replaces the one held, or NULL.
GetElementType ==
    /\ pc \in {"compiled", "released"}
    /\ wrapper # None /\ wrapper.class = "ReflectionArrayOfType"
    /\ IF Dangling(wrapper.desc)
       THEN \E r \in Read("getElementType", NULL) :
               /\ result' = r
               /\ wrapper' \in
                     CASE r.value = "stale" ->
                             {TypeWrapper(StaleDescriptor(wrapper.desc).element_type,
                                          wrapper.desc \o <<1>>)}
                       [] r.value = "other" -> {wrapper} \cup WildWrappers
                       [] OTHER -> {wrapper}
       ELSE LET element_type_obj ==
                    reflection_type_from_zend_type(
                        DescriptorAt(type, wrapper.desc).element_type, wrapper.desc \o <<1>>)
            IN /\ result' \in Read("getElementType", element_type_obj # NULL)
               /\ wrapper' = IF element_type_obj # NULL THEN element_type_obj[1] ELSE wrapper
    /\ UNCHANGED <<ast, type, other, value, pc, diag, owners, freed, ctx, heap, levels, stack>>

\* ReflectionArrayShapeType::getElementCount
GetElementCount ==
    /\ pc \in {"compiled", "released"}
    /\ wrapper # None /\ wrapper.class = "ReflectionArrayShapeType"
    /\ result' \in Read("getElementCount",
                        IF Dangling(wrapper.desc) THEN 0
                        ELSE DescriptorAt(type, wrapper.desc).num_elements)
    /\ UNCHANGED <<ast, type, other, value, pc, diag, owners, freed, ctx, heap, levels, stack,
                   wrapper>>

\* ReflectionArrayShapeType::getElement(key): the wrapper of the first
\* element declared with the key, which replaces the one held, or NULL.
GetElement ==
    /\ pc \in {"compiled", "released"}
    /\ wrapper # None /\ wrapper.class = "ReflectionArrayShapeType"
    /\ \E key \in {StrKey("id"), StrKey("name"), NumKey(0)} :
          IF Dangling(wrapper.desc)
          THEN \E r \in Read("getElement", NULL) :
                  /\ result' = r
                  /\ wrapper' \in
                        CASE r.value = "stale" ->
                                {FindElement(StaleDescriptor(wrapper.desc), key)}
                          [] r.value = "other" ->
                                {wrapper} \cup
                                {ElementWrapper(wrapper.desc, i) : i \in 1..MaxElems}
                          [] OTHER -> {wrapper}
          ELSE LET found == FindElement(DescriptorAt(type, wrapper.desc), key)
               IN /\ result' \in Read("getElement", found # wrapper)
                  /\ wrapper' = found
    /\ UNCHANGED <<ast, type, other, value, pc, diag, owners, freed, ctx, heap, levels, stack>>

\* ReflectionArrayShapeElement::isOptional
ElementIsOptional ==
    /\ pc \in {"compiled", "released"}
    /\ wrapper # None /\ wrapper.class = "ReflectionArrayShapeElement"
    /\ result' \in Read("isOptional",
                        IF Dangling(wrapper.desc) THEN FALSE
                        ELSE DescriptorAt(type, wrapper.desc).elements[wrapper.index].is_optional)
    /\ UNCHANGED <<ast, type, other, value, pc, diag, owners, freed, ctx, heap, levels, stack,
                   wrapper>>

\* ReflectionArrayShapeElement::getType: the wrapper of the element's type,
\* which replaces the one held, or NULL.
ElementGetType ==
    /\ pc \in {"compiled", "released"}
    /\ wrapper # None /\ wrapper.class = "ReflectionArrayShapeElement"
    /\ IF Dangling(wrapper.desc)
       THEN \E r \in Read("getType", NULL) :
               /\ result' = r
               /\ wrapper' \in
                     CASE r.value = "stale"
                             /\ wrapper.index <= StaleDescriptor(wrapper.desc).num_elements ->
                             {TypeWrapper(
                                 StaleDescriptor(wrapper.desc).elements[wrapper.index].type,
                                 wrapper.desc \o <<wrapper.index>>)}
                       [] r.value \in {"stale", "other"} -> {wrapper} \cup WildWrappers
                       [] OTHER -> {wrapper}
       ELSE LET type_obj ==
                    reflection_type_from_zend_type(
                        DescriptorAt(type, wrapper.desc).elements[wrapper.index].type,
                        wrapper.desc \o <<wrapper.index>>)
            IN /\ result' \in Read("getType", type_obj # NULL)
               /\ wrapper' = IF type_obj # NULL THEN type_obj[1] ELSE wrapper
    /\ UNCHANGED <<ast, type, other, value, pc, diag, owners, freed, ctx, heap, levels, stack>>

NextReflection ==
    \/ Compile
    \/ Duplicate
    \/ Release
    \/ Reflect
    \/ GetDepth
    \/ GetElementType
    \/ GetElementCount
    \/ GetElement
    \/ ElementIsOptional
    \/ ElementGetType
    \/ Return

SpecReflection == InitReflection /\ [][NextReflection]_vars

(***************************************************************************)
(* Execution contexts that share the compiled declaration.  Nothing in the *)
(* repository synchronises them: every read and write of a descriptor is a *)
(* step of its own, in the order the statements of addref, release and     *)
(* zend_type_release_extended make them.  heap is what memory holds behind *)
(* the pointers of type: the count of every descriptor, as a uint32_t, and *)
(* the slots (stored zend_types) that were set to ZEND_TYPE_INIT_NONE.     *)
(* Memory that was freed keeps what it held; a context that reads or       *)
(* writes it goes on with that content, or faults.                         *)
(***************************************************************************)
Contexts == {1, 2}

Front(path) == SubSeq(path, 1, Len(path) - 1)
Sub32(x) ==
    IF x = <<0, 0>> THEN <<Half - 1, Half - 1>>
    ELSE IF x[2] = 0 THEN <<x[1] - 1, Half - 1>>
    ELSE <<x[1], x[2] - 1>>

\* The paths of the array<T> and shape descriptors below a type.
RECURSIVE CountedPaths(_, _)
CountedPaths(t, path) ==
    (IF ZEND_TYPE_HAS_EXTENDED_ARRAY(t) THEN {path} ELSE {}) \cup
    UNION {CountedPaths(StoredTypes(t)[i], path \o <<i>>) : i \in 1..Len(StoredTypes(t))}

\* The zend_type found in the slot at path: a context's own copy of the
\* declaration's type at <<>>, a type stored in a descriptor below.
SlotContent(path) ==
    IF path # <<>> /\ path \in heap.cleared THEN ZEND_TYPE_INIT_NONE ELSE TypeAt(type, path)

\* Two contexts, each holding one of the two references to the descriptor,
\* start to duplicate or to destroy their signature at the same time.
Fork ==
    /\ pc = "compiled"
    /\ owners = [made |-> 2, live |-> 2]
    /\ ZEND_TYPE_HAS_EXTENDED_ARRAY(type)
    /\ ctx' \in [Contexts ->
                    {[op |-> "duplicate", at |-> "load", path |-> <<>>, tmp |-> <<0, 0>>,
                      branch |-> "none"],
                     [op |-> "destroy", at |-> "read", path |-> <<>>, tmp |-> <<0, 0>>,
                      branch |-> "none"]}]
    /\ heap' = [count |-> [p \in CountedPaths(type, <<>>) |->
                              U32(DescriptorAt(type, p).refcount)],
                cleared |-> {}]
    /\ pc' = "concurrent"
    /\ UNCHANGED <<ast, type, other, value, result, diag, owners, freed, levels, stack,
                   wrapper>>

\* The context stops in an access to the memory of a freed descriptor.
Fault(c, desc) ==
    /\ IsFreed(desc)
    /\ ctx' = [ctx EXCEPT ![c].at = "fault"]
    /\ UNCHANGED <<type, owners, freed, heap>>

\* The branch of zend_type_release_extended a mask selects.
Branch(t) ==
    IF ZEND_TYPE_IS_ARRAY_OF(t) THEN "array_of"
    ELSE IF ZEND_TYPE_IS_ARRAY_SHAPE(t) THEN "shape"
    ELSE IF ZEND_TYPE_HAS_LIST(t) THEN "list"
    ELSE IF ZEND_TYPE_HAS_NAME(t) THEN "name"
    ELSE "none"

\* zend_type_release_extended(type): the tests on the mask of *type, which
\* select the branch; a mask without payload bit leads to the final
\* ZEND_TYPE_INIT_NONE(*type).  The pointer of *type is loaded afterwards.
ReadSlot(c) ==
    /\ pc = "concurrent"
    /\ ctx[c].op = "destroy" /\ ctx[c].at = "read"
    /\ LET path == ctx[c].path
           branch == Branch(SlotContent(path))
       IN \/ /\ ctx' = [ctx EXCEPT ![c].branch = branch,
                                   ![c].at = IF branch = "none" THEN "clear" ELSE "ptr"]
             /\ UNCHANGED <<type, owners, freed, heap>>
          \/ path # <<>> /\ Fault(c, Front(path))
    /\ UNCHANGED <<ast, other, value, pc, result, diag, levels, stack, wrapper>>

\* The load of the pointer of *type in the branch taken, a read of its own
\* after the tests on the mask: ZEND_TYPE_ARRAY_OF_PTR, ZEND_TYPE_ARRAY_SHAPE_PTR,
\* ZEND_TYPE_LIST or ZEND_TYPE_NAME.  The slot may have been set to
\* ZEND_TYPE_INIT_NONE in between: a NULL descriptor is skipped (if (array_of),
\* if (shape)), a NULL list is dereferenced for num_types and a NULL name is
\* handed to zend_string_release, where the context faults.  With a pointer
\* the context goes on to the first stored type, to the count of a shape
\* without elements, or, the name released, to the final ZEND_TYPE_INIT_NONE.
LoadPointer(c) ==
    /\ pc = "concurrent"
    /\ ctx[c].at = "ptr"
    /\ LET path == ctx[c].path
           branch == ctx[c].branch
           t == TypeAt(type, path)
       IN \/ /\ ctx' = [ctx EXCEPT ![c] =
                          IF SlotContent(path).ptr = NullPtr
                          THEN [@ EXCEPT !.at = IF branch \in {"array_of", "shape"}
                                                THEN "clear" ELSE "fault"]
                          ELSE IF Len(StoredTypes(t)) > 0
                          THEN [@ EXCEPT !.path = path \o <<1>>, !.at = "read"]
                          ELSE [@ EXCEPT !.at = CASE branch = "name" -> "clear"
                                                  [] branch = "list" -> "free"
                                                  [] OTHER -> "load"]]
             /\ UNCHANGED <<type, owners, freed, heap>>
          \/ path # <<>> /\ Fault(c, Front(path))
    /\ UNCHANGED <<ast, other, value, pc, result, diag, levels, stack, wrapper>>

\* ZEND_TYPE_INIT_NONE(*type) at the end of zend_type_release_extended, and
\* the return to the caller: the next stored type of the loop, or, after
\* the last one, the release of the descriptor (pefree for a list).  The
\* call on the context's own copy ends the destruction.
ClearSlot(c) ==
    /\ pc = "concurrent"
    /\ ctx[c].at = "clear"
    /\ LET path == ctx[c].path
           parent == Front(path)
           i == path[Len(path)]
       IN \/ /\ heap' = IF path = <<>> THEN heap
                        ELSE [heap EXCEPT !.cleared = @ \cup {path}]
             /\ ctx' = [ctx EXCEPT ![c] =
                          IF path = <<>> THEN [@ EXCEPT !.at = "done"]
                          ELSE IF i < Len(StoredTypes(TypeAt(type, parent)))
                          THEN [@ EXCEPT !.path = parent \o <<i + 1>>, !.at = "read"]
                          ELSE [@ EXCEPT !.path = parent,
                                         !.at = IF ZEND_TYPE_HAS_LIST(TypeAt(type, parent))
                                                THEN "free" ELSE "load"]]
             /\ owners' = IF path = <<>> THEN [owners EXCEPT !.live = @ - 1] ELSE owners
             /\ UNCHANGED <<type, freed>>
          \/ path # <<>> /\ Fault(c, parent)
    /\ UNCHANGED <<ast, other, value, pc, result, diag, levels, stack, wrapper>>

\* refcount++ and --refcount are a plain load and a plain store of the
\* field: the load.
LoadCount(c) ==
    /\ pc = "concurrent"
    /\ ctx[c].at = "load"
    /\ \/ /\ ctx' = [ctx EXCEPT ![c].at = "loaded", ![c].tmp = heap.count[ctx[c].path]]
          /\ UNCHANGED <<type, owners, freed, heap>>
       \/ Fault(c, ctx[c].path)
    /\ UNCHANGED <<ast, other, value, pc, result, diag, levels, stack, wrapper>>

\* The store of the incremented or decremented value.  The duplication is
\* then done; the release still has to compare the count with zero.
StoreCount(c) ==
    /\ pc = "concurrent"
    /\ ctx[c].at = "loaded"
    /\ LET path == ctx[c].path
           count == IF ctx[c].op = "duplicate" THEN Add32(ctx[c].tmp, 1)
                    ELSE Sub32(ctx[c].tmp)
       IN \/ /\ heap' = [heap EXCEPT !.count[path] = count]
             /\ type' = IF path = <<>> THEN [type EXCEPT !.ptr.refcount = count[2]] ELSE type
             /\ ctx' = [ctx EXCEPT ![c].tmp = count,
                                   ![c].at = IF ctx[c].op = "duplicate" THEN "done"
                                             ELSE "stored"]
             /\ owners' = IF ctx[c].op = "duplicate"
                          THEN [made |-> owners.made + 1, live |-> owners.live + 1]
                          ELSE owners
             /\ UNCHANGED freed
          \/ Fault(c, path)
    /\ UNCHANGED <<ast, other, value, pc, result, diag, levels, stack, wrapper>>

\* (--refcount == 0): the comparison uses the value the context stored, or
\* the field read again, as the build has it; on zero the descriptor is
\* freed.
TestCount(c) ==
    /\ pc = "concurrent"
    /\ ctx[c].at = "stored"
    /\ LET path == ctx[c].path
       IN \/ /\ \E count \in {ctx[c].tmp, heap.count[path]} :
                   freed' = IF count = <<0, 0>> THEN Append(freed, path) ELSE freed
             /\ ctx' = [ctx EXCEPT ![c].at = "clear"]
             /\ UNCHANGED <<type, owners, heap>>
          \/ Fault(c, path)
    /\ UNCHANGED <<ast, other, value, pc, result, diag, levels, stack, wrapper>>

\* pefree(list): a list has no count, every release of a type that holds it
\* frees it.
FreeList(c) ==
    /\ pc = "concurrent"
    /\ ctx[c].at = "free"
    /\ freed' = Append(freed, ctx[c].path)
    /\ ctx' = [ctx EXCEPT ![c].at = "clear"]
    /\ UNCHANGED <<ast, type, other, value, pc, result, diag, owners, heap, levels, stack,
                   wrapper>>

NextConcurrent ==
    \/ Compile
    \/ Duplicate
    \/ Fork
    \/ \E c \in Contexts :
          \/ ReadSlot(c)
          \/ LoadPointer(c)
          \/ ClearSlot(c)
          \/ LoadCount(c)
          \/ StoreCount(c)
          \/ TestCount(c)
          \/ FreeList(c)

SpecConcurrent == Init /\ [][NextConcurrent]_vars

(***************************************************************************)
(* What the claims speak about.                                            *)
(***************************************************************************)
ElementKey(e) == IF e.is_string_key THEN StrKey(ZSTR_VAL(e.key)) ELSE NumKey(e.key_num)
HasKey(ht, kr) == \E i \in 1..Len(ht) : ht[i].bkey = kr
ValueAt(ht, kr) == ht[CHOOSE i \in 1..Len(ht) : ht[i].bkey = kr].val
Least(S) == CHOOSE i \in S : \A j \in S : i <= j
IsShapeDecl == pc # "parsed" /\ ast.kind = "ZEND_AST_TYPE_ARRAY_SHAPE"
IsArrayOfDecl == pc # "parsed" /\ ast.kind = "ZEND_AST_TYPE_ARRAY_OF"

\* A declared element is satisfied by ht: absent and optional, or present
\* with a value that validates against the element's type.
ElementSatisfied(e, ht) ==
    IF HasKey(ht, ElementKey(e))
    THEN zend_check_type_extended(e.type, ValueAt(ht, ElementKey(e)))
    ELSE e.is_optional

\* C1: validate(shape S, v) passes exactly when v is an array and every
\* declared element is absent and optional, or present with a value that
\* validates against the element's declared type.
C1_ShapePassesIffElementsSatisfied ==
    (pc = "validated" /\ IsShapeDecl) =>
        LET v == ZVAL_DEREF(value)
            shape == ZEND_TYPE_ARRAY_SHAPE_PTR(type)
        IN result.ok =
             (/\ Z_TYPE_P(v) = "array"
              /\ \A i \in 1..shape.num_elements :
                    ElementSatisfied(shape.elements[i], Z_ARRVAL_P(v)))

\* The buckets of ht whose key the shape declares, in their order.
RECURSIVE DeclaredOnly(_, _)
DeclaredOnly(shape, ht) ==
    IF ht = <<>> THEN <<>>
    ELSE IF \E i \in 1..shape.num_elements : ElementKey(shape.elements[i]) = Head(ht).bkey
    THEN <<Head(ht)>> \o DeclaredOnly(shape, Tail(ht))
    ELSE DeclaredOnly(shape, Tail(ht))

Undeclared(shape, ht) ==
    {i \in 1..Len(ht) :
       \A k \in 1..shape.num_elements : ElementKey(shape.elements[k]) # ht[i].bkey}

\* What a failed shape validation reports, with the value pointed to in
\* place of the pointer.
ShapeOutcome(r, ht) ==
    [ok |-> r.ok, missing_key |-> r.missing_key, missing_key_num |-> r.missing_key_num,
     is_string_key |-> r.is_string_key, failed_element |-> r.failed_element,
     bad |-> IF r.bad_value = NULL THEN NULL ELSE Ptr(Follow(ht, r.bad_value))]

ExtraBucket == Bucket(StrKey("extra"), ZTrue)

\* C2: undeclared keys never influence shape validation: the outcome and
\* the failure details for an array are those for the same array without
\* its undeclared keys, and with one more undeclared key.
C2_UndeclaredKeysIgnored ==
    (IsShapeDecl /\ pc \in {"validated", "shape_validated", "verified"}
                 /\ Z_TYPE_P(value) = "array") =>
        LET shape == ZEND_TYPE_ARRAY_SHAPE_PTR(type)
            ht == Z_ARRVAL_P(value)
            less == DeclaredOnly(shape, ht)
            more == <<ExtraBucket>> \o ht
        IN CASE pc = "validated" ->
                  /\ result.ok = zend_check_type_extended(type, ZArray(less))
                  /\ result.ok = zend_check_type_extended(type, ZArray(more))
             [] pc = "shape_validated" ->
                  /\ ShapeOutcome(result, ht)
                        = ShapeOutcome(zend_validate_array_shape(shape, less), less)
                  /\ ShapeOutcome(result, ht)
                        = ShapeOutcome(zend_validate_array_shape(shape, more), more)
             [] pc = "verified" ->
                  /\ diag = zend_verify_arg_type_extended(type, ZArray(less))
                  /\ diag = zend_verify_arg_type_extended(type, ZArray(more))

\* C2 witness: an array with an undeclared key passed a shape with two
\* declared keys.
C2_Witness ==
    /\ IsShapeDecl /\ pc = "verified" /\ diag.valid
    /\ Z_TYPE_P(value) = "array"
    /\ ZEND_TYPE_ARRAY_SHAPE_PTR(type).num_elements = 2
    /\ Undeclared(ZEND_TYPE_ARRAY_SHAPE_PTR(type), Z_ARRVAL_P(value)) # {}
    /\ Len(DeclaredOnly(ZEND_TYPE_ARRAY_SHAPE_PTR(type), Z_ARRVAL_P(value))) = 2

\* C3: validate(array<T>, v) passes exactly when v is an array and every
\* element of v validates against T; an empty array passes.
C3_ArrayOfPassesIffAllElementsValidate ==
    (pc = "validated" /\ IsArrayOfDecl) =>
        LET v == ZVAL_DEREF(value)
            T == ZEND_TYPE_ARRAY_OF_PTR(type).element_type
        IN result.ok =
             (/\ Z_TYPE_P(v) = "array"
              /\ \A i \in 1..Len(Z_ARRVAL_P(v)) :
                    zend_check_type_extended(T, Z_ARRVAL_P(v)[i].val))

\* The shape with the single element e.
SingleElementShape(e) ==
    [zend_array_shape_alloc(1) EXCEPT !.elements = <<e>>]

FailingElements(shape, ht) ==
    {i \in 1..shape.num_elements :
       ~zend_validate_array_shape(SingleElementShape(shape.elements[i]), ht).ok}

\* C4: shape validation goes through the declared elements in declaration
\* order and stops at the first that fails: the failure reported is the one
\* of the failing element with the lowest declaration index, and the loop
\* has not gone past it.
C4_FirstFailingElementReported ==
    (pc = "shape_validated") =>
        LET shape == ZEND_TYPE_ARRAY_SHAPE_PTR(type)
            ht == Z_ARRVAL_P(value)
            failing == FailingElements(shape, ht)
        IN IF failing = {}
           THEN result.ok /\ result.examined = shape.num_elements
           ELSE LET first == Least(failing)
                    alone == zend_validate_array_shape(
                                 SingleElementShape(shape.elements[first]), ht)
                IN /\ ~result.ok
                   /\ result.examined = first
                   /\ result = [alone EXCEPT !.examined = first]

\* C4 witness: both declared elements fail and the first, holding a value
\* of the wrong type, is the one reported.
C4_Witness ==
    /\ pc = "shape_validated" /\ ~result.ok
    /\ Cardinality(FailingElements(ZEND_TYPE_ARRAY_SHAPE_PTR(type), Z_ARRVAL_P(value))) = 2
    /\ result.examined = 1
    /\ result.bad_value # NULL

PlainElementType(t) ==
    ~ZEND_TYPE_IS_ARRAY_OF(t) /\ ~ZEND_TYPE_IS_ARRAY_SHAPE(t)

NotValidating(T, ht) ==
    {i \in 1..Len(ht) : ~zend_check_type_extended(T, ht[i].val)}

\* C5: when array<T> with a plain, class or composite T fails on a
\* non-empty array, the element captured is the first in iteration order
\* that does not validate against T, nothing after it is examined, and the
\* kind reported is the kind of that element.
C5_FirstBadElementCaptured ==
    (/\ pc \in {"array_of_validated", "verified"}
     /\ IsArrayOfDecl
     /\ PlainElementType(ZEND_TYPE_ARRAY_OF_PTR(type).element_type)
     /\ Z_TYPE_P(value) = "array"
     /\ NotValidating(ZEND_TYPE_ARRAY_OF_PTR(type).element_type, Z_ARRVAL_P(value)) # {}) =>
        LET ht == Z_ARRVAL_P(value)
            first == Least(NotValidating(ZEND_TYPE_ARRAY_OF_PTR(type).element_type, ht))
        IN IF pc = "array_of_validated"
           THEN /\ ~result.ok
                /\ result.bad_element = <<first>>
                /\ result.examined = first
           ELSE /\ ~diag.valid
                /\ diag.message = "array containing"
                /\ diag.actual = zend_zval_type_name(ht[first].val)

\* C5 witness: [1, "x", 1] against array<int> is reported as holding a
\* string.
C5_Witness ==
    /\ pc = "verified" /\ ast = AstArrayOf(IntAst)
    /\ Z_TYPE_P(value) = "array"
    /\ Len(Z_ARRVAL_P(value)) = 3
    /\ NotValidating(ZEND_TYPE_ARRAY_OF_PTR(type).element_type, Z_ARRVAL_P(value)) = {2}
    /\ diag.actual = "string"

\* The failure a check is due to, found by descending into the value along
\* the declared type: none, the value itself is of the wrong kind, a
\* required key is absent (with the key), or a value held at a key or in a
\* container does not match the type declared for it (with that type and
\* that value).
NoFailure == [cat |-> "pass"]
KindFailure == [cat |-> "kind"]
MissingKeyFailure(e) == [cat |-> "missing", at |-> ElementKey(e)]
WrongTypeFailure(t, v) == [cat |-> "wrong", declared |-> t, held |-> v]

RECURSIVE FirstFailure(_, _)
RECURSIVE FirstBucketFailure(_, _, _)
RECURSIVE FirstElementFailure(_, _, _)

\* The failure of v held at a key or in a container declared with type t.
HeldFailure(t, v) ==
    LET f == FirstFailure(t, v)
    IN IF f.cat = "kind" THEN WrongTypeFailure(t, v) ELSE f

FirstBucketFailure(T, ht, i) ==
    IF i > Len(ht) THEN NoFailure
    ELSE LET f == HeldFailure(T, ht[i].val)
         IN IF f.cat # "pass" THEN f ELSE FirstBucketFailure(T, ht, i + 1)

FirstElementFailure(shape, ht, i) ==
    IF i > shape.num_elements THEN NoFailure
    ELSE LET e == shape.elements[i]
         IN IF ~HasKey(ht, ElementKey(e))
            THEN IF e.is_optional THEN FirstElementFailure(shape, ht, i + 1)
                 ELSE MissingKeyFailure(e)
            ELSE LET f == HeldFailure(e.type, ValueAt(ht, ElementKey(e)))
                 IN IF f.cat # "pass" THEN f
                    ELSE FirstElementFailure(shape, ht, i + 1)

FirstFailure(t, v0) ==
    LET v == ZVAL_DEREF(v0)
    IN IF ZEND_TYPE_IS_ARRAY_OF(t)
       THEN IF Z_TYPE_P(v) # "array" THEN KindFailure
            ELSE FirstBucketFailure(ZEND_TYPE_ARRAY_OF_PTR(t).element_type, Z_ARRVAL_P(v), 1)
       ELSE IF ZEND_TYPE_IS_ARRAY_SHAPE(t)
       THEN IF Z_TYPE_P(v) # "array" THEN KindFailure
            ELSE FirstElementFailure(ZEND_TYPE_ARRAY_SHAPE_PTR(t), Z_ARRVAL_P(v), 1)
       ELSE IF zend_check_type_extended(t, v) THEN NoFailure ELSE KindFailure

\* C6: a check against a shape type that fails because a required key is
\* absent, in the declared shape or in a shape nested in one of its
\* elements, produces the missing-key diagnostic with the identity of the
\* absent key.
C6_MissingKeyDiagnostic ==
    (pc = "verified" /\ IsShapeDecl /\ FirstFailure(type, value).cat = "missing") =>
        /\ ~diag.valid
        /\ diag.message = "missing required key"
        /\ diag.key = FirstFailure(type, value).at

\* C7: a check that fails because a value held at a declared key or in an
\* array-of container has the wrong type reports as expected type the
\* stringification of the narrowest type that value did not match, and as
\* actual kind the kind of that value.
C7_NarrowestExpectedType ==
    (pc = "verified" /\ FirstFailure(type, value).cat = "wrong") =>
        /\ ~diag.valid
        /\ diag.expected = zend_type_to_string_extended(FirstFailure(type, value).declared)
        /\ diag.actual = zend_zval_type_name(FirstFailure(type, value).held)

InstanceOfBoth(v, c1, c2) ==
    Z_TYPE_P(v) = "object" /\ {c1, c2} \subseteq ClassTable[Z_OBJCE_P(v)]

\* C8: a value validates against a union exactly when it validates against
\* at least one member, and against an intersection exactly when it
\* validates against every member; int|string accepts exactly the int and
\* string values, and A&B exactly the objects that are instances of both.
C8_UnionAnyIntersectionEvery ==
    (pc = "validated" /\ ZEND_TYPE_HAS_LIST(type)) =>
        LET list == ZEND_TYPE_LIST(type)
            passes(i) == zend_check_type_extended(list.types[i], value)
        IN /\ result.ok =
                IF "_ZEND_TYPE_INTERSECTION_BIT" \in type.type_mask
                THEN \A i \in 1..list.num_types : passes(i)
                ELSE \E i \in 1..list.num_types : passes(i)
           /\ ast = AstUnion(<<IntAst, StrAst>>) =>
                result.ok = (Z_TYPE_P(ZVAL_DEREF(value)) \in {"long", "string"})
           /\ ast = AstIntersection(<<AstName("A"), AstName("B")>>) =>
                result.ok = InstanceOfBoth(ZVAL_DEREF(value), "A", "B")

\* C8 witness: a string passed int|string on the second member.
C8_Witness ==
    /\ pc = "validated" /\ ast = AstUnion(<<IntAst, StrAst>>)
    /\ value = ZString("x") /\ result.ok

\* The mask bits a value's kind maps to.
KindBits(v) ==
    CASE Z_TYPE_P(v) = "null" -> {"MAY_BE_NULL"}
      [] Z_TYPE_P(v) = "true" -> {"MAY_BE_TRUE"}
      [] Z_TYPE_P(v) = "false" -> {"MAY_BE_FALSE"}
      [] Z_TYPE_P(v) = "long" -> {"MAY_BE_LONG"}
      [] Z_TYPE_P(v) = "double" -> {"MAY_BE_DOUBLE"}
      [] Z_TYPE_P(v) = "string" -> {"MAY_BE_STRING"}
      [] Z_TYPE_P(v) = "array" -> {"MAY_BE_ARRAY"}
      [] Z_TYPE_P(v) = "object" ->
            {"MAY_BE_OBJECT"} \cup
            (IF "Traversable" \in ClassTable[Z_OBJCE_P(v)] THEN {"MAY_BE_ITERABLE"} ELSE {})
      [] OTHER -> {}

IsPlainDecl == pc # "parsed" /\ ast \in PlainAsts

\* C9: for a plain type, validate passes exactly when the value's kind maps
\* to a bit set in the mask: null to null, true to true or bool, false to
\* false or bool, int, float, string, array and object to their own bit, an
\* object implementing iteration also to iterable; every other pairing
\* fails.  (bool is the mask of the true and the false bit, so true maps to
\* bool through the true bit and false through the false bit.)
C9_PlainMaskMatchesKind ==
    (pc = "validated" /\ IsPlainDecl) =>
        result.ok = (KindBits(ZVAL_DEREF(value)) \cap type.type_mask # {})

SameKey(ea, eb) ==
    /\ ea.is_string_key = eb.is_string_key
    /\ IF ea.is_string_key THEN ea.key = eb.key ELSE ea.key_num = eb.key_num

\* C10: two shape types are equivalent exactly when they have the same
\* number of elements and, position by position, the elements agree on key
\* kind, key identity and optional flag and have equivalent types.
C10_ShapesEquivalentIffElementsAgree ==
    (/\ pc = "compared"
     /\ ZEND_TYPE_IS_ARRAY_SHAPE(type) /\ ZEND_TYPE_IS_ARRAY_SHAPE(other.type)) =>
        LET a == ZEND_TYPE_ARRAY_SHAPE_PTR(type)
            b == ZEND_TYPE_ARRAY_SHAPE_PTR(other.type)
        IN result.equivalent =
             (/\ a.num_elements = b.num_elements
              /\ \A i \in 1..a.num_elements :
                    /\ SameKey(a.elements[i], b.elements[i])
                    /\ a.elements[i].is_optional = b.elements[i].is_optional
                    /\ zend_types_are_equivalent(a.elements[i].type, b.elements[i].type))

(***************************************************************************)
(* Equivalence of array-of and of plain types.                             *)
(***************************************************************************)
ExtendedTag(t) == t.type_mask \cap ZEND_TYPE_EXTENDED_ARRAY_MASK

\* How many array<...> levels wrap a type, and the type under them.
RECURSIVE ArrayOfLevels(_)
ArrayOfLevels(t) ==
    IF ZEND_TYPE_IS_ARRAY_OF(t)
    THEN 1 + ArrayOfLevels(ZEND_TYPE_ARRAY_OF_PTR(t).element_type) ELSE 0

RECURSIVE ArrayOfBase(_)
ArrayOfBase(t) ==
    IF ZEND_TYPE_IS_ARRAY_OF(t)
    THEN ArrayOfBase(ZEND_TYPE_ARRAY_OF_PTR(t).element_type) ELSE t

\* C11: two types whose extended-array tag bits differ are never
\* equivalent; two array-of types are equivalent exactly when their element
\* types are, which at every nesting level means: the same number of
\* array<...> levels around equivalent innermost types.
C11_ArrayOfEquivalentIffElementsEquivalent ==
    pc = "compared" =>
        /\ ExtendedTag(type) # ExtendedTag(other.type) => ~result.equivalent
        /\ (ZEND_TYPE_IS_ARRAY_OF(type) /\ ZEND_TYPE_IS_ARRAY_OF(other.type)) =>
              /\ result.equivalent =
                    zend_types_are_equivalent(
                        ZEND_TYPE_ARRAY_OF_PTR(type).element_type,
                        ZEND_TYPE_ARRAY_OF_PTR(other.type).element_type)
              /\ result.equivalent =
                    (/\ ArrayOfLevels(type) = ArrayOfLevels(other.type)
                     /\ zend_types_are_equivalent(ArrayOfBase(type),
                                                  ArrayOfBase(other.type)))

\* Two array-of types nested two levels deep were compared and found
\* equivalent.
C11_Witness ==
    /\ pc = "compared"
    /\ ZEND_TYPE_IS_ARRAY_OF(type) /\ ZEND_TYPE_IS_ARRAY_OF(other.type)
    /\ ArrayOfLevels(type) >= 2
    /\ result.equivalent

\* Two array-of types with the same nesting but different innermost types
\* were compared and found different.
C11_WitnessDifferent ==
    /\ pc = "compared"
    /\ ZEND_TYPE_IS_ARRAY_OF(type) /\ ZEND_TYPE_IS_ARRAY_OF(other.type)
    /\ ArrayOfLevels(type) = ArrayOfLevels(other.type)
    /\ ~result.equivalent

\* C12: two types without an extended payload are equivalent exactly when
\* their primitive masks are equal and either neither carries a class name
\* or both carry names equal ignoring letter case.
C12_PlainEquivalentIffMaskAndName ==
    (/\ pc = "compared"
     /\ ExtendedTag(type) = {} /\ ExtendedTag(other.type) = {}) =>
        LET namedA == ZEND_TYPE_HAS_NAME(type)
            namedB == ZEND_TYPE_HAS_NAME(other.type)
        IN /\ result.equivalent =
                (/\ ZEND_TYPE_PURE_MASK(type) = ZEND_TYPE_PURE_MASK(other.type)
                 /\ \/ ~namedA /\ ~namedB
                    \/ /\ namedA /\ namedB
                       /\ LowerCase[ZEND_TYPE_NAME(type)]
                              = LowerCase[ZEND_TYPE_NAME(other.type)])
           /\ namedA # namedB => ~result.equivalent

\* Two class types whose names differ only in letter case were compared and
\* found equivalent.
C12_Witness ==
    /\ pc = "compared"
    /\ ZEND_TYPE_HAS_NAME(type) /\ ZEND_TYPE_HAS_NAME(other.type)
    /\ ZEND_TYPE_NAME(type) # ZEND_TYPE_NAME(other.type)
    /\ result.equivalent

(***************************************************************************)
(* Ownership of the descriptors.                                           *)
(***************************************************************************)
HasDescriptor(t) == ZEND_TYPE_HAS_EXTENDED_ARRAY(t) \/ ZEND_TYPE_HAS_LIST(t)

\* The paths of the descriptors allocated for a type, and the counted ones
\* with their counts.
RECURSIVE Allocated(_, _)
Allocated(t, path) ==
    (IF HasDescriptor(t) THEN {path} ELSE {})
        \cup UNION {Allocated(StoredTypes(t)[i], path \o <<i>>) :
                       i \in 1..Len(StoredTypes(t))}

RECURSIVE Refcounts(_, _)
Refcounts(t, path) ==
    (IF ZEND_TYPE_HAS_EXTENDED_ARRAY(t)
     THEN {[path |-> path, refcount |-> t.ptr.refcount]} ELSE {})
        \cup UNION {Refcounts(StoredTypes(t)[i], path \o <<i>>) :
                       i \in 1..Len(StoredTypes(t))}

TimesFreed(path) == Cardinality({i \in 1..Len(freed) : freed[i] = path})

Compiled == zend_compile_type_internal(ast)

\* C13: every descriptor is created with refcount 1 and duplication only
\* increments the count of the top-level one; no descriptor is ever freed
\* twice; and once every owner has released its reference, each descriptor
\* allocated for the declaration has been freed.
C13_ReleasedExactlyOnce ==
    /\ pc \in {"compiled", "owner_released"} =>
          \A d \in Refcounts(type, <<>>) :
             d.refcount = IF d.path = <<>> THEN owners.live ELSE 1
    /\ \A i \in 1..Len(freed) : TimesFreed(freed[i]) = 1
    /\ pc = "released" =>
          /\ owners.live = 0
          /\ {freed[i] : i \in 1..Len(freed)} = Allocated(Compiled, <<>>)

\* A declaration with nested descriptors was duplicated and every owner has
\* released it.
C13_Witness ==
    /\ pc = "released"
    /\ owners.made >= 2
    /\ Len(freed) >= 3

\* C14: while an owner remains, a release by another owner leaves the shared
\* descriptor and every type nested in it live and unchanged (the count
\* apart), so validate and stringify through a remaining owner give what
\* they gave before the release.
C14_SurvivingOwnerUnaffected ==
    /\ pc = "owner_released" =>
          /\ freed = <<>>
          /\ type = [Compiled EXCEPT !.ptr.refcount = owners.live]
    /\ (pc = "validated" /\ owners.live >= 1) =>
          result.ok = zend_check_type_extended(Compiled, value)
    /\ (pc = "stringified" /\ owners.live >= 1) =>
          result.string = zend_type_to_string_extended(Compiled)

\* What the contexts were asked to do.
Increments == Cardinality({c \in Contexts : ctx[c].op = "duplicate"})
Decrements == Cardinality({c \in Contexts : ctx[c].op = "destroy"})
AllDone == pc = "concurrent" /\ \A c \in Contexts : ctx[c].at = "done"

\* C15: once two contexts have concurrently duplicated or destroyed
\* signatures sharing one descriptor, in whatever interleaving, the count is
\* the initial count plus the increments minus the decrements, and the
\* descriptor has been freed exactly once if that is zero and not at all
\* otherwise.
C15_NoRefcountUpdateLost ==
    AllDone =>
        LET expected == 2 + Increments - Decrements
        IN /\ type.ptr.refcount = expected
           /\ TimesFreed(<<>>) = IF expected = 0 THEN 1 ELSE 0

\* C16: validate, stringify and equivalent leave the types they are given
\* as they were: after any sequence of these calls the declaration's type is
\* what compile produced, mask, payload, element types, keys, optional
\* flags, depth, hash and refcount; and the second argument of equivalent is
\* what compile produced for it.
C16_ReadersLeaveTypesUnchanged ==
    /\ pc \in {"compiled", "validated", "stringified", "compared"} => type = Compiled
    /\ pc = "compared" => other.type = zend_compile_type_internal(other.ast)

\* A shape with nested descriptors went through a validate that passed; the
\* call has returned and the type has then been stringified.
C16_Witness ==
    /\ pc = "stringified"
    /\ ZEND_TYPE_IS_ARRAY_SHAPE(type)
    /\ Cardinality(Allocated(type, <<>>)) >= 2
    /\ result.string = zend_type_to_string_extended(Compiled)

(***************************************************************************)
(* What compile accepts and what it stores.                                *)
(***************************************************************************)
KnownKinds ==
    {"ZEND_AST_TYPE_ARRAY_OF", "ZEND_AST_TYPE_ARRAY_SHAPE", "ZEND_AST_TYPE",
     "ZEND_AST_CLASS_TYPE", "ZEND_AST_NAME", "ZEND_AST_NULLABLE_TYPE",
     "ZEND_AST_TYPE_UNION", "ZEND_AST_TYPE_INTERSECTION"}

\* The type nodes directly under a node.
ChildNodes(a) ==
    IF a.kind \in {"ZEND_AST_TYPE_ARRAY_OF", "ZEND_AST_NULLABLE_TYPE"} THEN {a.child}
    ELSE IF a.kind \in {"ZEND_AST_TYPE_UNION", "ZEND_AST_TYPE_INTERSECTION"}
    THEN {a.children[i] : i \in 1..Len(a.children)}
    ELSE IF a.kind = "ZEND_AST_TYPE_ARRAY_SHAPE"
    THEN {a.elems[i].type_ast : i \in 1..Len(a.elems)}
    ELSE {}

\* A node of an unrecognized kind or a shape element whose key literal is
\* neither a string nor an integer, at any depth.
RECURSIVE HasInvalidNode(_)
HasInvalidNode(a) ==
    \/ a.kind \notin KnownKinds
    \/ /\ a.kind = "ZEND_AST_TYPE_ARRAY_SHAPE"
       /\ \E i \in 1..Len(a.elems) : Z_TYPE_P(a.elems[i].key_zval) \notin {"string", "long"}
    \/ \E c \in ChildNodes(a) : HasInvalidNode(c)

\* C17: compile ends in a CompileError, and yields no type, exactly when the
\* tree holds, at any depth, a node of an unrecognized kind or a shape
\* element whose key literal is neither a string nor an integer; for every
\* other tree it yields a type.
C17_CompileErrorIffInvalidNode ==
    pc # "parsed" =>
        /\ (pc = "compile_error") = HasInvalidNode(ast)
        /\ pc = "compile_error" => (IsError(type) /\ "type_mask" \notin DOMAIN type)
        /\ pc # "compile_error" => (~IsError(type) /\ ZEND_TYPE_IS_SET(type))

\* The compilation of a tree whose invalid node lies two levels down, under
\* a valid sibling, has ended in a CompileError.
C17_Witness ==
    /\ pc = "compile_error"
    /\ ~ HasInvalidNode([ast EXCEPT !.kind = "ZEND_AST_NAME"])
    /\ \E c \in ChildNodes(ast) :
          /\ c.kind \in KnownKinds
          /\ \E d \in ChildNodes(c) : HasInvalidNode(d)
    /\ \E c \in ChildNodes(ast) : ~HasInvalidNode(c)

\* C18: the depth stored in a compiled array-of descriptor is 1 when its
\* element type is not an array-of, a shape included, and 1 plus the depth
\* of the element's descriptor when it is.
C18_DepthIsOnePlusElementDepth ==
    (pc = "compiled" /\ ZEND_TYPE_IS_ARRAY_OF(type)) =>
        LET element_type == ZEND_TYPE_ARRAY_OF_PTR(type).element_type
        IN ZEND_TYPE_ARRAY_OF_PTR(type).depth =
              IF ZEND_TYPE_IS_ARRAY_OF(element_type)
              THEN 1 + ZEND_TYPE_ARRAY_OF_PTR(element_type).depth
              ELSE 1

(***************************************************************************)
(* The canonical rendering of a declaration.                               *)
(***************************************************************************)
TypeKeyword ==
    [IS_NULL |-> "null", IS_FALSE |-> "false", IS_TRUE |-> "true", _IS_BOOL |-> "bool",
     IS_LONG |-> "int", IS_DOUBLE |-> "float", IS_STRING |-> "string", IS_ARRAY |-> "array",
     IS_OBJECT |-> "object", IS_CALLABLE |-> "callable", IS_ITERABLE |-> "iterable",
     IS_VOID |-> "void", IS_NEVER |-> "never", IS_MIXED |-> "mixed"]

RECURSIVE Rendering(_)
RECURSIVE JoinRenderings(_, _, _)
RECURSIVE JoinElements(_, _)

\* Members in declaration order, joined by the separator.
JoinRenderings(members, separator, i) ==
    IF i > Len(members) THEN ""
    ELSE (IF i > 1 THEN separator ELSE "") \o Rendering(members[i])
             \o JoinRenderings(members, separator, i + 1)

\* key, or key? when optional, then ": " and the type; comma-joined.
JoinElements(elems, i) ==
    IF i > Len(elems) THEN ""
    ELSE (IF i > 1 THEN ", " ELSE "")
             \o (IF Z_TYPE_P(elems[i].key_zval) = "string" THEN elems[i].key_zval.str
                 ELSE smart_str_append_long(elems[i].key_zval.lval))
             \o (IF elems[i].optional THEN "?" ELSE "")
             \o ": " \o Rendering(elems[i].type_ast)
             \o JoinElements(elems, i + 1)

Rendering(a) ==
    CASE a.kind = "ZEND_AST_TYPE" -> TypeKeyword[a.attr]
      [] a.kind \in {"ZEND_AST_NAME", "ZEND_AST_CLASS_TYPE"} -> a.name
      [] a.kind = "ZEND_AST_TYPE_ARRAY_OF" -> "array<" \o Rendering(a.child) \o ">"
      [] a.kind = "ZEND_AST_TYPE_ARRAY_SHAPE" -> "array{" \o JoinElements(a.elems, 1) \o "}"
      [] a.kind = "ZEND_AST_TYPE_UNION" -> JoinRenderings(a.children, "|", 1)
      [] a.kind = "ZEND_AST_TYPE_INTERSECTION" -> JoinRenderings(a.children, "&", 1)

\* Built from primitives, class names, array-of, shapes, unions and
\* intersections only.
RECURSIVE InGrammar(_)
InGrammar(a) ==
    /\ a.kind \in KnownKinds \ {"ZEND_AST_NULLABLE_TYPE"}
    /\ \A c \in ChildNodes(a) : InGrammar(c)

\* C19: for a declaration built from primitives, class names, array-of,
\* shapes, unions and intersections, every stringify of its compiled type
\* returns the canonical rendering of the declaration.
C19_StringifyMirrorsCompile ==
    (pc = "stringified" /\ InGrammar(ast)) => result.string = Rendering(ast)

(***************************************************************************)
(* The rendering of built-in types.                                        *)
(***************************************************************************)
KeywordOf ==
    [MAY_BE_BOOL |-> "bool", MAY_BE_LONG |-> "int", MAY_BE_DOUBLE |-> "float",
     MAY_BE_STRING |-> "string", MAY_BE_ARRAY |-> "array", MAY_BE_OBJECT |-> "object",
     MAY_BE_CALLABLE |-> "callable", MAY_BE_ITERABLE |-> "iterable", MAY_BE_VOID |-> "void",
     MAY_BE_NEVER |-> "never", MAY_BE_NULL |-> "null", MAY_BE_FALSE |-> "false",
     MAY_BE_TRUE |-> "true", MAY_BE_MIXED |-> "mixed"]

KeywordOrder ==
    <<"MAY_BE_BOOL", "MAY_BE_LONG", "MAY_BE_DOUBLE", "MAY_BE_STRING", "MAY_BE_ARRAY",
      "MAY_BE_OBJECT", "MAY_BE_CALLABLE", "MAY_BE_ITERABLE", "MAY_BE_VOID", "MAY_BE_NEVER",
      "MAY_BE_NULL", "MAY_BE_FALSE", "MAY_BE_TRUE", "MAY_BE_MIXED">>

\* The alternatives the "?X" notation is stated for.
PrefixAlternatives ==
    {"MAY_BE_BOOL", "MAY_BE_LONG", "MAY_BE_DOUBLE", "MAY_BE_STRING", "MAY_BE_ARRAY",
     "MAY_BE_OBJECT", "MAY_BE_CALLABLE", "MAY_BE_ITERABLE", "MAY_BE_TRUE", "MAY_BE_FALSE"}

\* The alternatives a mask stands for: bool when it has both boolean bits,
\* every other bit by itself.
AlternativesOf(mask) ==
    IF MAY_BE_BOOL \subseteq mask THEN (mask \ MAY_BE_BOOL) \cup {"MAY_BE_BOOL"} ELSE mask

\* The keywords of the alternatives from position i on, joined by "|".
RECURSIVE JoinKeywords(_, _, _)
JoinKeywords(mask, i, first) ==
    IF i > Len(KeywordOrder) THEN ""
    ELSE IF KeywordOrder[i] \in mask
    THEN (IF first THEN "" ELSE "|") \o KeywordOf[KeywordOrder[i]]
             \o JoinKeywords(mask, i + 1, FALSE)
    ELSE JoinKeywords(mask, i + 1, first)

IsPlain(t) ==
    ~ZEND_TYPE_HAS_EXTENDED_ARRAY(t) /\ ~ZEND_TYPE_HAS_LIST(t) /\ ~ZEND_TYPE_HAS_NAME(t)

\* C20: a plain type is rendered as the keywords of its bits joined by "|";
\* but null with exactly one other alternative X is rendered "?X" without
\* "null", while null with two or more others keeps "null" among the
\* keywords and gets no "?".
C20_PlainRendering ==
    (pc = "stringified" /\ IsPlain(type)) =>
        LET mask == AlternativesOf(ZEND_TYPE_PURE_MASK(type))
            alternatives == mask \ {"MAY_BE_NULL"}
        IN /\ "MAY_BE_NULL" \notin mask => result.string = JoinKeywords(mask, 1, TRUE)
           /\ ("MAY_BE_NULL" \in mask /\ Cardinality(alternatives) >= 2) =>
                 result.string = JoinKeywords(mask, 1, TRUE)
           /\ \A x \in PrefixAlternatives :
                 mask = {"MAY_BE_NULL", x} => result.string = "?" \o KeywordOf[x]

(***************************************************************************)
(* Dereferencing, masks of compiled types, termination.                    *)
(***************************************************************************)
RECURSIVE Unreferenced(_)
\* The value with every reference replaced by the value it refers to, at
\* every position.
Unreferenced(val0) ==
    LET val == ZVAL_DEREF(val0)
    IN IF Z_TYPE_P(val) = "array"
       THEN ZArray([i \in 1..Len(Z_ARRVAL_P(val)) |->
                       Bucket(Z_ARRVAL_P(val)[i].bkey, Unreferenced(Z_ARRVAL_P(val)[i].val))])
       ELSE val

\* C21: wherever the validator inspects the kind of a value (the bound
\* value, an element of an array<T> container, the value at a shape key,
\* also under a nested array<T> or shape type) a reference validates exactly
\* as the value it refers to.
C21_ReferenceValidatesAsItsValue ==
    pc = "validated" =>
        result.ok = zend_check_type_extended(type, Unreferenced(value))

\* A type and every type stored below it, at every nesting level.
RECURSIVE TypesWithin(_)
TypesWithin(t) ==
    {t} \cup UNION {TypesWithin(StoredTypes(t)[i]) : i \in 1..Len(StoredTypes(t))}

\* How many kinds of payload the mask announces for the one pointer.
PayloadKinds(t) ==
    {k \in {"extended", "name", "list"} :
        \/ k = "extended" /\ ZEND_TYPE_HAS_EXTENDED_ARRAY(t)
        \/ k = "name" /\ ZEND_TYPE_HAS_NAME(t)
        \/ k = "list" /\ ZEND_TYPE_HAS_LIST(t)}

\* C22: every type produced by compile, at every nesting level and also
\* under a nullable wrapper, has the general array bit whenever it has the
\* array-of or the shape tag bit, never has both tag bits, and carries at
\* most one of extended payload, class name and composite list.
C22_TagBitsWellFormed ==
    pc \in {"compiled", "stringified"} =>
        \A t \in TypesWithin(type) :
            /\ ZEND_TYPE_HAS_EXTENDED_ARRAY(t) => "MAY_BE_ARRAY" \in t.type_mask
            /\ ~(ZEND_TYPE_IS_ARRAY_OF(t) /\ ZEND_TYPE_IS_ARRAY_SHAPE(t))
            /\ Cardinality(PayloadKinds(t)) <= 1

\* A nullable wrapper around a shape has been compiled.
C22_Witness ==
    /\ pc = "compiled"
    /\ ast.kind = "ZEND_AST_NULLABLE_TYPE"
    /\ ZEND_TYPE_IS_ARRAY_SHAPE(type)
    /\ "MAY_BE_NULL" \in type.type_mask

\* A shape that stores a nullable array<T> has been compiled.
C22_WitnessNested ==
    /\ pc = "compiled"
    /\ ZEND_TYPE_IS_ARRAY_SHAPE(type)
    /\ \E t \in TypesWithin(type) :
          ZEND_TYPE_IS_ARRAY_OF(t) /\ "MAY_BE_NULL" \in t.type_mask

\* A composite list and a class name below an array<T> have been compiled.
C22_WitnessList ==
    /\ pc = "compiled"
    /\ ZEND_TYPE_IS_ARRAY_OF(type)
    /\ \E t \in TypesWithin(type) : ZEND_TYPE_HAS_LIST(t)
    /\ \E t \in TypesWithin(type) : ZEND_TYPE_HAS_NAME(t)

(***************************************************************************)
(* The validator one call and one loop iteration at a time.  A frame is a  *)
(* call in progress: the function, the type it was given (for the two      *)
(* matchers, the type that holds their descriptor), the value, the loop    *)
(* position and what the call it made last has returned.                   *)
(***************************************************************************)
Frame(fn, t, val) == [fn |-> fn, t |-> t, val |-> val, i |-> 1, ret |-> "none"]
Returning(r) == [op |-> "return", r |-> r]
Calling(f) == [op |-> "call", frame |-> f]
Advancing == [op |-> "next"]

\* What both matchers do with the value found at one position: the kind
\* test and the call for the stored type.
ElementCall(et, val) ==
    IF ZEND_TYPE_IS_ARRAY_OF(et)
    THEN IF Z_TYPE_P(val) # "array" THEN Returning(FALSE)
         ELSE Calling(Frame("zend_validate_array_of", et, val))
    ELSE IF ZEND_TYPE_IS_ARRAY_SHAPE(et)
    THEN IF Z_TYPE_P(val) # "array" THEN Returning(FALSE)
         ELSE Calling(Frame("zend_validate_array_shape", et, val))
    ELSE Calling(Frame("zend_check_type_extended", et, val))

\* zend_check_type_extended from where the frame stands.
CheckStep(f) ==
    LET val == IF Z_ISREF_P(f.val) THEN Z_REFVAL_P(f.val) ELSE f.val
    IN IF ZEND_TYPE_IS_ARRAY_OF(f.t)
       THEN IF Z_TYPE_P(val) # "array" THEN Returning(FALSE)
            ELSE IF f.ret = "none" THEN Calling(Frame("zend_validate_array_of", f.t, val))
            ELSE Returning(f.ret = "true")
       ELSE IF ZEND_TYPE_IS_ARRAY_SHAPE(f.t)
       THEN IF Z_TYPE_P(val) # "array" THEN Returning(FALSE)
            ELSE IF f.ret = "none" THEN Calling(Frame("zend_validate_array_shape", f.t, val))
            ELSE Returning(f.ret = "true")
       ELSE IF ZEND_TYPE_HAS_LIST(f.t)
       THEN LET list == ZEND_TYPE_LIST(f.t)
                is_intersection == "_ZEND_TYPE_INTERSECTION_BIT" \in f.t.type_mask
            IN IF f.ret = "none"
               THEN IF f.i > list.num_types THEN Returning(is_intersection)
                    ELSE Calling(Frame("zend_check_type_extended", list.types[f.i], val))
               ELSE IF (f.ret = "true") = is_intersection THEN Advancing
               ELSE Returning(~is_intersection)
       ELSE Returning(zend_check_type_extended(f.t, val))

\* zend_validate_array_of from where the frame stands.
ArrayOfStep(f) ==
    LET ht == Z_ARRVAL_P(f.val)
        array_of == ZEND_TYPE_ARRAY_OF_PTR(f.t)
    IN IF zend_hash_num_elements(ht) = 0 THEN Returning(TRUE)
       ELSE IF f.ret = "false" THEN Returning(FALSE)
       ELSE IF f.ret = "true" THEN Advancing
       ELSE IF f.i > Len(ht) THEN Returning(TRUE)
       ELSE ElementCall(array_of.element_type, ht[f.i].val)

\* zend_validate_array_shape from where the frame stands.
ShapeStep(f) ==
    LET ht == Z_ARRVAL_P(f.val)
        shape == ZEND_TYPE_ARRAY_SHAPE_PTR(f.t)
    IN IF f.ret = "false" THEN Returning(FALSE)
       ELSE IF f.ret = "true" THEN Advancing
       ELSE IF f.i > shape.num_elements THEN Returning(TRUE)
       ELSE LET elem == shape.elements[f.i]
                j == ShapeLookup(ht, elem)
            IN IF j = 0
               THEN IF elem.is_optional THEN Advancing ELSE Returning(FALSE)
               ELSE ElementCall(elem.type, ht[j].val)

\* A loop whose position never moves on.
StackAfterWithoutAdvance(out) ==
    IF out.op = "return"
    THEN IF Len(stack) = 1 THEN <<>>
         ELSE [SubSeq(stack, 1, Len(stack) - 1) EXCEPT
                  ![Len(stack) - 1].ret = IF out.r THEN "true" ELSE "false"]
    ELSE IF out.op = "call" THEN Append(stack, out.frame)
    ELSE [stack EXCEPT ![Len(stack)].ret = "none"]

\* The calls in progress after the step: the callee's result handed to its
\* caller, the new call on top, or the loop of the running call moved on.
StackAfter(out) ==
    IF out.op = "return"
    THEN IF Len(stack) = 1 THEN <<>>
         ELSE [SubSeq(stack, 1, Len(stack) - 1) EXCEPT
                  ![Len(stack) - 1].ret = IF out.r THEN "true" ELSE "false"]
    ELSE IF out.op = "call" THEN Append(stack, out.frame)
    ELSE [stack EXCEPT ![Len(stack)].i = @ + 1, ![Len(stack)].ret = "none"]

RunStep(out) ==
    /\ stack' = StackAfter(out)
    /\ IF out.op = "return" /\ Len(stack) = 1
       THEN result' = [ok |-> out.r] /\ pc' = "validated"
       ELSE UNCHANGED <<result, pc>>
    /\ UNCHANGED <<ast, type, other, value, diag, owners, freed, ctx, heap, levels, wrapper>>

\* validate(type, value) is called.
Call ==
    /\ pc = "compiled"
    /\ \E v \in ValuesFor(ast) :
          /\ value' = v
          /\ stack' = <<Frame("zend_check_type_extended", type, v)>>
    /\ pc' = "validating"
    /\ UNCHANGED <<ast, type, other, result, diag, owners, freed, ctx, heap, levels, wrapper>>

StepCheck ==
    /\ pc = "validating"
    /\ stack[Len(stack)].fn = "zend_check_type_extended"
    /\ RunStep(CheckStep(stack[Len(stack)]))

StepArrayOf ==
    /\ pc = "validating"
    /\ stack[Len(stack)].fn = "zend_validate_array_of"
    /\ RunStep(ArrayOfStep(stack[Len(stack)]))

StepShape ==
    /\ pc = "validating"
    /\ stack[Len(stack)].fn = "zend_validate_array_shape"
    /\ RunStep(ShapeStep(stack[Len(stack)]))

NextSteps == Compile \/ Call \/ StepCheck \/ StepArrayOf \/ StepShape \/ Return

\* A call in progress keeps running: the validator is sequential code on
\* the thread that called it.
SpecSteps ==
    Init /\ [][NextSteps]_vars /\ WF_vars(StepCheck \/ StepArrayOf \/ StepShape)

\* The number of types in the tree of a type.
RECURSIVE NodeCount(_)
RECURSIVE SumNodeCounts(_, _)
SumNodeCounts(types, i) ==
    IF i > Len(types) THEN 0 ELSE NodeCount(types[i]) + SumNodeCounts(types, i + 1)
NodeCount(t) == 1 + SumNodeCounts(StoredTypes(t), 1)

\* What is left of the type tree for a call: a matcher works on the
\* descriptor of the type its caller was given.
Measure(f) == 2 * NodeCount(f.t) - (IF f.fn = "zend_check_type_extended" THEN 0 ELSE 1)

\* How far the loop of a call can go.
LoopBound(f) ==
    IF f.fn = "zend_validate_array_of" THEN Len(Z_ARRVAL_P(f.val))
    ELSE IF f.fn = "zend_validate_array_shape" THEN ZEND_TYPE_ARRAY_SHAPE_PTR(f.t).num_elements
    ELSE IF ZEND_TYPE_HAS_LIST(f.t) THEN ZEND_TYPE_LIST(f.t).num_types
    ELSE 0

CallsDescend ==
    /\ \A k \in 1..(Len(stack) - 1) : Measure(stack[k + 1]) < Measure(stack[k])
    /\ \A k \in 1..Len(stack) : stack[k].i <= LoopBound(stack[k]) + 1

\* C23: validate terminates with Pass or Fail for every compiled type and
\* every finite value: each call in progress works on a strictly smaller
\* part of the type tree than its caller, each loop position stays within
\* the container, the declared elements or the members, and every call of
\* validate eventually returns a verdict, the one of the validator.
C23_ValidateTerminates ==
    /\ [](CallsDescend /\ (pc = "validated" => result.ok \in BOOLEAN))
    /\ (pc = "validating") ~> (pc = "validated")

\* Three calls deep in a nested declaration, with the loop of the outer
\* matcher past its first position.
C23_Witness ==
    /\ pc = "validating"
    /\ Len(stack) >= 4
    /\ \E k \in 1..Len(stack) : stack[k].i > 1

\* The step-by-step validator reaches the verdict of the recursive one.
StepsAgree ==
    pc = "validated" => result.ok = zend_check_type_extended(type, value)

(***************************************************************************)
(* Repeated keys.                                                          *)
(***************************************************************************)
\* The positions of the element list that declare the key of position i.
Occurrences(i) == {j \in 1..Len(ast.elems) : ast.elems[j].key_zval = ast.elems[i].key_zval}
RepeatsAKey ==
    /\ ast.kind = "ZEND_AST_TYPE_ARRAY_SHAPE"
    /\ \E i \in 1..Len(ast.elems) : Cardinality(Occurrences(i)) > 1

\* The element compiled from the occurrence at position i of the list.
ElementOf(i) ==
    LET key_zval == ast.elems[i].key_zval
    IN [key |-> IF Z_TYPE_P(key_zval) = "string" THEN Ptr(key_zval.str) ELSE NULL,
        key_num |-> IF Z_TYPE_P(key_zval) = "string" THEN 0 ELSE key_zval.lval,
        is_string_key |-> Z_TYPE_P(key_zval) = "string",
        is_optional |-> ast.elems[i].optional,
        type |-> zend_compile_type_internal(ast.elems[i].type_ast)]

LastOccurrence(i) == CHOOSE j \in Occurrences(i) : \A k \in Occurrences(i) : k <= j

\* C24 as amended: compiling a shape that declares the same key twice
\* succeeds and keeps every occurrence, in declaration order, as an element
\* of its own; a value validates exactly when it is an array that satisfies
\* each occurrence: the key may be absent only if every occurrence is
\* optional, and a value present at the key has to validate against the type
\* of every occurrence.
C24_EveryOccurrenceKept ==
    (RepeatsAKey /\ pc \in {"compiled", "validated"}) =>
        /\ ~IsError(type)
        /\ ZEND_TYPE_ARRAY_SHAPE_PTR(type).num_elements = Len(ast.elems)
        /\ \A i \in 1..Len(ast.elems) : ZEND_TYPE_ARRAY_SHAPE_PTR(type).elements[i] = ElementOf(i)
        /\ pc = "validated" =>
              result.ok =
                 (/\ Z_TYPE_P(ZVAL_DEREF(value)) = "array"
                  /\ \A i \in 1..Len(ast.elems) :
                        LET ht == Z_ARRVAL_P(ZVAL_DEREF(value))
                        IN IF HasKey(ht, ElementKey(ElementOf(i)))
                           THEN \A j \in Occurrences(i) :
                                   zend_check_type_extended(ElementOf(j).type,
                                                            ValueAt(ht, ElementKey(ElementOf(i))))
                           ELSE \A j \in Occurrences(i) : ElementOf(j).is_optional)

\* array{id: string, id: int} was checked against ['id' => 1]: the value
\* satisfies the last occurrence and is rejected for the first.
C24_Witness ==
    /\ RepeatsAKey /\ pc = "validated"
    /\ Z_TYPE_P(ZVAL_DEREF(value)) = "array"
    /\ HasKey(Z_ARRVAL_P(ZVAL_DEREF(value)), ElementKey(ElementOf(1)))
    /\ ElementSatisfied(ElementOf(2), Z_ARRVAL_P(ZVAL_DEREF(value)))
    /\ ~ElementSatisfied(ElementOf(1), Z_ARRVAL_P(ZVAL_DEREF(value)))
    /\ ~result.ok

\* C24 as stated: compiling a shape that declares the same key twice
\* succeeds, the compiled shape has one element for that key, the last
\* occurrence, and a value validates according to the last occurrence alone.
C24_OnlyLastOccurrenceKept ==
    (RepeatsAKey /\ pc \in {"compiled", "validated"}) =>
        /\ ~IsError(type)
        /\ \A i \in 1..Len(ast.elems) :
              LET same == {k \in 1..ZEND_TYPE_ARRAY_SHAPE_PTR(type).num_elements :
                              ElementKey(ZEND_TYPE_ARRAY_SHAPE_PTR(type).elements[k])
                                  = ElementKey(ElementOf(i))}
              IN /\ Cardinality(same) = 1
                 /\ \A k \in same :
                       ZEND_TYPE_ARRAY_SHAPE_PTR(type).elements[k] = ElementOf(LastOccurrence(i))
        /\ pc = "validated" =>
              result.ok =
                 (/\ Z_TYPE_P(ZVAL_DEREF(value)) = "array"
                  /\ \A i \in 1..Len(ast.elems) :
                        ElementSatisfied(ElementOf(LastOccurrence(i)),
                                         Z_ARRVAL_P(ZVAL_DEREF(value))))

(***************************************************************************)
(* Nullable wrappers.                                                      *)
(***************************************************************************)
\* C25: a type compiled from a nullable wrapper accepts null whatever the
\* wrapped type is: validate passes, and the argument and return checks
\* report no error, for null against nullable array-of, shape, class-name
\* and composite types as against nullable built-in types.
C25_NullableAcceptsNull ==
    (ast.kind = "ZEND_AST_NULLABLE_TYPE" /\ value = ZNull) =>
        /\ pc = "validated" => result.ok
        /\ pc = "verified" => diag = Verified

(***************************************************************************)
(* Composite lists, the shape hash, nullability in renderings.             *)
(***************************************************************************)
\* C26: two composite-list types are equivalent only if they are both
\* unions or both intersections, have the same number of members, and their
\* members are pairwise equivalent in declaration order.
C26_ListsEquivalentOnlyIfMembersAgree ==
    (pc = "compared" /\ ZEND_TYPE_HAS_LIST(type) /\ ZEND_TYPE_HAS_LIST(other.type)
        /\ result.equivalent) =>
        /\ ("_ZEND_TYPE_UNION_BIT" \in type.type_mask)
              = ("_ZEND_TYPE_UNION_BIT" \in other.type.type_mask)
        /\ ("_ZEND_TYPE_INTERSECTION_BIT" \in type.type_mask)
              = ("_ZEND_TYPE_INTERSECTION_BIT" \in other.type.type_mask)
        /\ ZEND_TYPE_LIST(type).num_types = ZEND_TYPE_LIST(other.type).num_types
        /\ \A i \in 1..ZEND_TYPE_LIST(type).num_types :
              zend_types_are_equivalent(ZEND_TYPE_LIST(type).types[i],
                                        ZEND_TYPE_LIST(other.type).types[i])

\* C27: the shape hash is a pure pre-filter: two shapes with the same number
\* of elements whose elements match pairwise in declaration order (key kind,
\* key identity, optional flag, equivalent type) have equal stored hashes,
\* and the comparison gives what it would give without the hash test.
C27_HashIsPurePreFilter ==
    (/\ pc = "compared"
     /\ ZEND_TYPE_IS_ARRAY_SHAPE(type) /\ ZEND_TYPE_IS_ARRAY_SHAPE(other.type)) =>
        LET a == ZEND_TYPE_ARRAY_SHAPE_PTR(type)
            b == ZEND_TYPE_ARRAY_SHAPE_PTR(other.type)
        IN /\ (/\ a.num_elements = b.num_elements
               /\ \A i \in 1..a.num_elements :
                     /\ SameKey(a.elements[i], b.elements[i])
                     /\ a.elements[i].is_optional = b.elements[i].is_optional
                     /\ zend_types_are_equivalent(a.elements[i].type, b.elements[i].type))
                 => a.shape_hash = b.shape_hash
           /\ result.equivalent =
                 (a.num_elements = b.num_elements /\ EquivalentElements(a, b, 1))

\* The wrapped declaration admits null by itself, or may not be wrapped.
AdmitsNull(a) ==
    a.kind = "ZEND_AST_TYPE" /\ a.attr \in {"IS_NULL", "IS_MIXED", "IS_VOID", "IS_NEVER"}

\* C28: stringify shows nullability for every nullable type: for a type
\* expression T that does not itself admit null, array-of, shape, class name
\* and composite included, the rendering of compile(nullable T) is the
\* rendering of compile(T) with a leading "?" or with a "null" alternative.
C28_StringifyShowsNullability ==
    (pc = "stringified" /\ ast.kind = "ZEND_AST_NULLABLE_TYPE" /\ ~AdmitsNull(ast.child)) =>
        LET plain == zend_type_to_string_extended(zend_compile_type_internal(ast.child))
        IN /\ result.string # plain
           /\ \/ result.string = "?" \o plain
              \/ result.string = plain \o "|null"
              \/ result.string = "null|" \o plain

(***************************************************************************)
(* Wrappers and freed descriptors; stored depth.                           *)
(***************************************************************************)
\* C29: an introspection wrapper never refers to a freed descriptor: after
\* a wrapper was created for an array-of or shape type, or for one of its
\* shape elements, and owning references of the declaration were released,
\* the descriptor read by a method of the wrapper is still live.
C29_WrapperReadsLiveDescriptor ==
    (wrapper # None /\ "live" \in DOMAIN result) => result.live

\* C30: for every number n >= 1 of directly nested array-of levels in a
\* declaration, n greater than 255 included, the depth stored in the
\* outermost array-of descriptor equals n; the stored depth of a compiled
\* array-of descriptor is never 0.  (The innermost element type of the
\* chains built here is not an array-of, so n is the number of levels.)
C30_StoredDepthIsNestingLevel ==
    (pc = "compiled" /\ levels >= 1) =>
        /\ ZEND_TYPE_IS_ARRAY_OF(type)
        /\ ZEND_TYPE_ARRAY_OF_PTR(type).depth = levels
        /\ ZEND_TYPE_ARRAY_OF_PTR(type).depth # 0

====
